---- MODULE Spec2Model ----
(***************************************************************************)
(* Finding store, verification orchestrator and finish gates of strix.     *)
(*                                                                         *)
(* The Tracer's four report lists, the agent graph, the watchdog timers    *)
(* and the threads that touch them (agent loops, verifier loops, timer     *)
(* threads).  None of the Tracer's methods takes a lock, so every access   *)
(* to a shared list or dict is a step of its own and the steps of          *)
(* different threads interleave freely.                                    *)
(*                                                                         *)
(* A report is a Python dict that the lists hold by reference: it is       *)
(* modelled as an index into `reports` (its object identity), and its "id" *)
(* field vuln-000n as the number n.                                        *)
(*                                                                         *)
(* Tracer.add_vulnerability_report has no caller in the repository and is  *)
(* no action of the model.                                                 *)
(*                                                                         *)
(* Two further parts stand beside the store: one call of the tool          *)
(* executor's process_tool_invocations (SpecTools), and the agent_loop of  *)
(* one agent with its AgentState and its mailbox (SpecLoop).  That agent   *)
(* is a sub-agent run by _run_agent_in_thread; its graph node, the senders *)
(* of its envelopes taken step by step (SpecMail), the tracer's cleanup    *)
(* (SpecCleanup) and the nodes and edges that create_agent and the spawn   *)
(* of a verifier add to the graph (SpecGraph) are modelled with it.  So are*)
(* the messages agents send each other (SpecPost), the validation of a     *)
(* report's arguments (SpecReport), the check of a verifier's control tests*)
(* (SpecControl) and the copy of the parent's log that a new agent's thread*)
(* makes (SpecInherit).                                                    *)
(***************************************************************************)
EXTENDS Integers, Sequences, FiniteSets, TLC

\* ------------------------------------------------------------------ bounds
MaxFindings == 2      \* reports created in a run
MaxVerifiers == 1     \* verification agents that start in a run
MaxToolCalls == 2     \* tool calls a verifier's LLM issues in a run
MaxUserMsgs == 1      \* messages the user sends in a run
MaxInvocations == 3   \* tool invocations of one turn
MaxIterations == 2    \* AgentState.max_iterations of the agent whose loop is followed
MaxEnvelopes == 2     \* envelopes sent to that agent in a run
MaxTimeouts == 1      \* waiting timeouts of that agent in a run
MaxNodes == 5         \* nodes of the agent graph
MaxHistory == 3       \* messages of a parent before it calls create_agent
MaxSends == 2         \* messages sent with send_message_to_agent
MaxTargets == 3       \* nodes of the graph while messages are sent

\* --------------------------------------------------------------- constants
MinReproductions == 3
ApproachPercent == 85     \* is_approaching_max_iterations: threshold 0.85
FinalWarningLeft == 3    \* the final warning at max_iterations - 3

Agents == {"root", "sub"}
Findings == 1 .. MaxFindings
\* The numbers an id can take: every finding can sit in three of the counted
\* lists at once while a move is under way.
IdSet == 1 .. 3 * MaxFindings
NoParent == "none"

ParentOf(a) == IF a = "root" THEN NoParent ELSE "root"

\* the ids of the nodes of the agent graph; NoNode is parent_id None
NodeIds == 1 .. MaxNodes
NoNode == 0

\* who appends envelopes to the mailbox of the agent whose loop is followed
Senders == {"user", "peer"}

VARIABLES
    reports,        \* report objects: [id, status, vtype, reason]
    pending,        \* Tracer.pending_vulnerability_reports
    verified,       \* Tracer.vulnerability_reports
    rejected,       \* Tracer.rejected_vulnerability_reports
    manual,         \* Tracer.needs_manual_review_reports
    finalScan,      \* Tracer.final_scan_result is set
    anode,          \* _agent_graph["nodes"][a]["status"] of the agents
    vnode,          \* the same of the verifier spawned for report object k
    mailbox,        \* _agent_messages[a]: envelopes [from, read]
    timeouts,       \* _verification_timeouts: report id -> timer (0: none)
    wd,             \* threading.Timer of verifier k and its handler's position
    wloc,           \* locals of the timer thread of verifier k
    apc,            \* position of agent a's thread
    aloc,           \* locals of the tool call agent a is in
    vpc,            \* position of verifier k's thread
    vloc,           \* locals of the tool call verifier k is in
    calls,          \* tool calls verifier k has issued
    userMsgs,       \* messages the user has sent
    vparent,        \* _agent_graph["nodes"][verifier k]["parent_id"]
    decided,        \* history: finalize or reject returned True for object k
    invs,           \* process_tool_invocations: the list tool_invocations
    tpc,            \* position of the tool task
    ti,             \* index of the for loop over tool_invocations
    inflight,       \* indices of the invocations being awaited
    executed,       \* history: indices in the order their execution began
    failed,         \* history: indices whose tool was unknown or raised
    parts,          \* observation_parts
    history,        \* conversation_history: messages, each a list of blocks
    shouldFinish,   \* should_agent_finish; the value returned
    lpc,            \* position of one agent's agent_loop
    nonInteractive, \* BaseAgent.non_interactive of that agent
    iteration,      \* AgentState.iteration
    completed,      \* AgentState.completed
    stopRequested,  \* AgentState.stop_requested
    waitingForInput, \* AgentState.waiting_for_input
    llmFailed,      \* AgentState.llm_failed
    warningSent,    \* AgentState.max_iterations_warning_sent
    inbox,          \* _agent_messages[agent_id]: envelopes [from, read]
    di,             \* index of the for loop of _check_agent_messages
    messages,       \* AgentState.messages: entries [kind, id]
    nstatus,        \* _agent_graph["nodes"][agent_id]["status"] of that agent
    nresult,        \* _agent_graph["nodes"][agent_id]["result"]: who wrote it
    errors,         \* len(AgentState.errors)
    finalResult,    \* AgentState.final_result: none, success or failure
    clock,          \* the last value datetime.now(UTC) has returned
    stamps,         \* the "timestamp" of the envelopes of inbox, in list order
    stamping,       \* sender -> timestamp of the envelope it has built (0: none)
    runSaved,       \* Tracer.save_run_data(mark_complete=True) has run
    gnodes,         \* _agent_graph["nodes"]: [id, parent, kind]
    gedges,         \* _agent_graph["edges"] but the message edges: [from, to, type]
    medges,         \* the edges of type message, in the list's order: [from, to, id]
    gboxes,         \* _agent_messages: agent id -> envelopes [from, read, id]
    gworkers,       \* the keys of _running_agents
    gresult,        \* what the last call of a graph or reporting tool returned
    phist,          \* AgentState.messages of an agent that calls create_agent
    ppc,            \* that agent's position
    pcomp,          \* compressed_history of its LLM.generate
    atCall,         \* history: its messages when create_agent was called
    shared,         \* the child was given the parent's list (inherit_context)
    cpc,            \* position of the child's _run_agent_in_thread
    ci,             \* index of the child's for loop over inherited_messages
    clog            \* the child's AgentState.messages

storeVars == <<reports, pending, verified, rejected, manual, finalScan>>
graphVars == <<anode, vnode, vparent, mailbox>>
timerVars == <<timeouts, wd, wloc>>
agentVars == <<apc, aloc, userMsgs>>
verifierVars == <<vpc, vloc, calls>>
histVars == <<decided>>
coreVars == <<storeVars, graphVars, timerVars, agentVars, verifierVars, histVars>>
toolVars == <<invs, tpc, ti, inflight, executed, failed, parts, history, shouldFinish>>
loopVars == <<lpc, nonInteractive, iteration, completed, stopRequested, waitingForInput,
              llmFailed, warningSent, inbox, di, messages>>
nodeVars == <<nstatus, nresult>>
mailVars == <<clock, stamps, stamping>>
inheritVars == <<phist, ppc, pcomp, atCall, shared, cpc, ci, clog>>
shapeVars == <<gnodes, gedges, medges, gboxes, gworkers, gresult>>
auxVars == <<nodeVars, errors, finalResult, mailVars, runSaved, shapeVars, inheritVars>>
extVars == <<toolVars, loopVars, auxVars>>
vars == <<coreVars, extVars>>

\* ------------------------------------------------------- vulnerability types
\* The registry maps a type to the names of its required control tests.
\* Names are sequences of characters.
VulnTypes == {"idor", "xss"}

RequiredControlTests(t) ==
    IF t = "idor" THEN {<<"a", "_", "b">>} ELSE {<<"c">>}

ToLower(c) == IF c = "A" THEN "a" ELSE IF c = "B" THEN "b" ELSE IF c = "C" THEN "c" ELSE c

ReplaceChar(c) == IF c = " " \/ c = "-" THEN "_" ELSE c

\* str.strip(): the white space is taken off both ends; of the characters
\* of white space the model has the blank, the tab and the newline
Whitespace == {" ", "\t", "\n"}

RECURSIVE LStrip(_)
LStrip(s) == IF s # <<>> /\ Head(s) \in Whitespace THEN LStrip(Tail(s)) ELSE s

RECURSIVE RStrip(_)
RStrip(s) ==
    IF s # <<>> /\ s[Len(s)] \in Whitespace
    THEN RStrip(SubSeq(s, 1, Len(s) - 1)) ELSE s

Strip(s) == RStrip(LStrip(s))

\* name.lower().replace(" ", "_").replace("-", "_").strip(): after the
\* replacements no blank is left for strip() to remove, a tab or a newline
\* at an end is
NormalizeTestName(name) ==
    Strip([i \in 1 .. Len(name) |-> ReplaceChar(ToLower(name[i]))])

\* ------------------------------------------------------------ list helpers
RECURSIVE IndexFrom(_, _, _)
IndexFrom(q, rid, i) ==
    IF i > Len(q) THEN 0
    ELSE IF reports[q[i]].id = rid THEN i
    ELSE IndexFrom(q, rid, i + 1)

\* for i, report in enumerate(list): if report["id"] == report_id
IndexOfId(q, rid) == IndexFrom(q, rid, 1)

\* list.pop(i), for an index inside the list
PopAt(q, i) == SubSeq(q, 1, i - 1) \o SubSeq(q, i + 1, Len(q))


Count(q, x) == Cardinality({i \in 1 .. Len(q) : q[i] = x})

\* Tracer.get_pending_report: the first pending object with this id, 0 for None
GetPendingReport(rid) ==
    IF IndexOfId(pending, rid) = 0 THEN 0 ELSE pending[IndexOfId(pending, rid)]

\* Tracer.is_report_verified
IsReportVerified(rid) == \A i \in 1 .. Len(pending) : reports[pending[i]].id # rid

\* Tracer.add_pending_vulnerability_report: the count the id is made from
TotalReports == Len(verified) + Len(pending) + Len(rejected)

\* ------------------------------------------------------ two-phase evidence
\* A verification_evidence argument: present (not None or empty),
\* phase1_reproduction present with its reproduction_count,
\* phase2_validity present with validity_confirmed, the test_name of each
\* independent control test and whether validity_reasoning is non-empty.
Evidence(present, count, confirmed, tests, reasoning) ==
    [present |-> present, count |-> count, confirmed |-> confirmed,
     tests |-> tests, reasoning |-> reasoning]

EvidenceInputs ==
    { Evidence(TRUE, 3, TRUE, {<<"A", "-", "b">>}, TRUE),
      Evidence(TRUE, 3, TRUE, {<<"C">>}, TRUE),
      Evidence(TRUE, 2, TRUE, {<<"A", "-", "b">>, <<"C">>}, TRUE),
      Evidence(TRUE, 3, FALSE, {<<"A", "-", "b">>, <<"C">>}, TRUE),
      Evidence(TRUE, 3, TRUE, {}, TRUE),
      Evidence(TRUE, 3, TRUE, {<<"A", "-", "b">>, <<"C">>}, FALSE),
      Evidence(FALSE, 0, FALSE, {}, FALSE) }

\* test names a verifier can give, and evidence that is complete but for the
\* names of its control tests
TestNames ==
    {<<"c">>, <<"C">>, <<"c", "\t">>, <<" ", "c">>, <<"A", "-", "b">>, <<"a", " ", "B">>,
     <<"a", "b">>, <<"d">>}

ControlEvidenceInputs ==
    {Evidence(TRUE, 3, TRUE, {n}, TRUE) : n \in TestNames}
        \cup {Evidence(TRUE, 3, TRUE, {}, TRUE),
              Evidence(TRUE, 3, TRUE, {<<"d">>, <<"C">>}, TRUE)}

ControlTestsOverlap(ev, t) ==
    \/ t = "unknown"
    \/ t \notin VulnTypes
    \/ {NormalizeTestName(n) : n \in RequiredControlTests(t)}
           \cap {NormalizeTestName(n) : n \in ev.tests} # {}

ValidateTwoPhaseEvidence(ev, t) ==
    /\ ev.present
    /\ ev.count >= MinReproductions
    /\ ev.confirmed
    /\ ev.tests # {}
    /\ ControlTestsOverlap(ev, t)
    /\ ev.reasoning

\* ------------------------------------------------------------ thread locals
NoEvidence == Evidence(FALSE, 0, FALSE, {}, FALSE)

NoLoc == [rid |-> 0, verified |-> FALSE, ev |-> NoEvidence, i |-> 0, f |-> 0]

NoALoc == [total |-> 0, vtype |-> "idor", f |-> 0]

NoWLoc == [i |-> 0, f |-> 0]

NewReport(id, t) ==
    [id |-> id, status |-> "pending_verification", vtype |-> t, reason |-> ""]

\* the id of the report verifier k was spawned for (node["report_id"])
ReportIdOf(k) == reports[k].id

\* threading.Thread.is_alive() of verifier k's thread
IsAlive(k) == vpc[k] \notin {"none", "dead"}

Init ==
    /\ reports = <<>>
    /\ pending = <<>>
    /\ verified = <<>>
    /\ rejected = <<>>
    /\ manual = <<>>
    /\ finalScan = FALSE
    /\ anode = [a \in Agents |-> "running"]
    /\ vnode = [k \in Findings |-> "none"]
    /\ vparent = [k \in Findings |-> NoParent]
    /\ mailbox = [a \in Agents |-> <<>>]
    /\ timeouts = [r \in IdSet |-> 0]
    /\ wd = [k \in Findings |-> "none"]
    /\ wloc = [k \in Findings |-> NoWLoc]
    /\ apc = [a \in Agents |-> "idle"]
    /\ aloc = [a \in Agents |-> NoALoc]
    /\ userMsgs = 0
    /\ vpc = [k \in Findings |-> "none"]
    /\ vloc = [k \in Findings |-> NoLoc]
    /\ calls = [k \in Findings |-> 0]
    /\ decided = [k \in Findings |-> FALSE]
    /\ invs = <<>>
    /\ tpc = "idle"
    /\ ti = 0
    /\ inflight = {}
    /\ executed = <<>>
    /\ failed = {}
    /\ parts = <<>>
    /\ history = <<>>
    /\ shouldFinish = FALSE
    /\ lpc = "off"
    /\ nonInteractive = FALSE
    /\ iteration = 0
    /\ completed = FALSE
    /\ stopRequested = FALSE
    /\ waitingForInput = FALSE
    /\ llmFailed = FALSE
    /\ warningSent = FALSE
    /\ inbox = <<>>
    /\ di = 0
    /\ messages = <<>>
    /\ nstatus = "running"
    /\ nresult = "none"
    /\ errors = 0
    /\ finalResult = "none"
    /\ clock = 0
    /\ stamps = <<>>
    /\ stamping = [s \in Senders |-> 0]
    /\ runSaved = FALSE
    /\ gnodes = {[id |-> 1, parent |-> NoNode, kind |-> "agent"]}
    /\ gedges = {}
    /\ medges = <<>>
    /\ gboxes = (1 :> <<>>)
    /\ gworkers = {}
    /\ gresult = [tool |-> "none", success |-> TRUE, id |-> 0]
    /\ phist = <<>>
    /\ ppc = "work"
    /\ pcomp = <<>>
    /\ atCall = <<>>
    /\ shared = FALSE
    /\ cpc = "none"
    /\ ci = 0
    /\ clog = <<>>

\* ------------------------------------------- create_vulnerability_report
\* The validation of title, content, severity and evidence is the input ok;
\* then add_pending_vulnerability_report reads the three list lengths.
CreateReportCore(a, t, ok) ==
    /\ apc[a] = "idle"
    /\ Len(reports) + Cardinality({b \in Agents : apc[b] = "cr_append"}) < MaxFindings
    /\ IF ok
       THEN /\ apc' = [apc EXCEPT ![a] = "cr_append"]
            /\ aloc' = [aloc EXCEPT ![a] = [total |-> TotalReports, vtype |-> t, f |-> 0]]
       ELSE UNCHANGED <<apc, aloc>>
    /\ UNCHANGED <<storeVars, graphVars, timerVars, userMsgs, verifierVars, histVars>>

CreateReportBegin(a, t, ok) ==
    /\ CreateReportCore(a, t, ok)
    /\ UNCHANGED extVars

\* The validation itself.  A text is a sequence of characters.
\* "not text or not text.strip()"
Blank(s) == s = <<>> \/ Strip(s) = <<>>

\* str.lower on the severities the model gives
Lower(w) ==
    CASE w = "Info" -> "info"
      [] w = "High" -> "high"
      [] OTHER -> w

ValidSeverities == {"critical", "high", "medium", "low", "info"}

\* what create_vulnerability_report can be given
Texts == {<<>>, <<" ", " ">>, <<" ", "a", " ">>, <<"a">>}
SeverityInputs == {"", "high", "Info", "severe", " "}
\* the evidence by the first check it fails: none given, no
\* vulnerability_type, a type the registry does not have, a claim_assertion
\* of under 20 characters, negative_control_passed false, no
\* reporter_control_tests, a dictionary validate_evidence refuses
ReportEvidenceInputs ==
    {"missing", "no_type", "unknown_type", "short_claim", "no_negative_control",
     "no_control_tests", "invalid", "valid"}
\* a report that passes every check, and the reports that differ from it in
\* one argument
GoodReport ==
    [title |-> <<" ", "a", " ">>, content |-> <<"a">>, severity |-> "high",
     evidence |-> "valid"]
ReportInputs ==
    {[GoodReport EXCEPT !.title = x] : x \in Texts}
        \cup {[GoodReport EXCEPT !.content = x] : x \in Texts}
        \cup {[GoodReport EXCEPT !.severity = w] : w \in SeverityInputs}
        \cup {[GoodReport EXCEPT !.evidence = e] : e \in ReportEvidenceInputs}

\* ReportAccepted with a slip: the severity is not looked at
ReportAcceptedAnySeverity(in) ==
    /\ ~Blank(in.title)
    /\ ~Blank(in.content)
    /\ in.evidence = "valid"

\* the checks of lines 404-484
ReportAccepted(in) ==
    /\ ~Blank(in.title)
    /\ ~Blank(in.content)
    /\ in.severity \notin {"", " "}
    /\ Lower(in.severity) \in ValidSeverities
    /\ in.evidence = "valid"

\* create_vulnerability_report up to the call of the tracer: an input that
\* fails a check is answered with success = false
CreateVulnerabilityReport(a, t, in) ==
    /\ CreateReportCore(a, t, ReportAccepted(in))
    /\ gresult' = IF ReportAccepted(in)
                  THEN gresult
                  ELSE [tool |-> "create_vulnerability_report", success |-> FALSE, id |-> 0]
    /\ UNCHANGED <<toolVars, loopVars, nodeVars, errors, finalResult, inheritVars, mailVars, runSaved,
                   gnodes, gedges, medges, gboxes, gworkers>>

\* self.pending_vulnerability_reports.append(report)
AddPendingAppend(a) ==
    /\ apc[a] = "cr_append"
    /\ reports' = Append(reports, NewReport(aloc[a].total + 1, aloc[a].vtype))
    /\ pending' = Append(pending, Len(reports) + 1)
    /\ aloc' = [aloc EXCEPT ![a].f = Len(reports) + 1]
    /\ apc' = [apc EXCEPT ![a] = "sp_start"]
    /\ UNCHANGED <<verified, rejected, manual, finalScan, graphVars, timerVars,
                   userMsgs, verifierVars, histVars>>
    /\ UNCHANGED extVars

\* _spawn_verification_agent: the node is registered and the thread started;
\* when the agent cannot be built (the except branches, spawned = FALSE) the
\* finding stays pending without a verifier and without a timer
SpawnStart(a, spawned) ==
    /\ apc[a] = "sp_start"
    /\ spawned => Cardinality({k \in Findings : vpc[k] # "none"}) < MaxVerifiers
    /\ IF spawned
       THEN /\ vnode' = [vnode EXCEPT ![aloc[a].f] = "running"]
            /\ vparent' = [vparent EXCEPT ![aloc[a].f] = a]
            /\ vpc' = [vpc EXCEPT ![aloc[a].f] = "run"]
            /\ apc' = [apc EXCEPT ![a] = "sp_timer"]
            /\ UNCHANGED aloc
       ELSE /\ apc' = [apc EXCEPT ![a] = "idle"]
            /\ aloc' = [aloc EXCEPT ![a] = NoALoc]
            /\ UNCHANGED <<vnode, vparent, vpc>>
    /\ UNCHANGED <<storeVars, anode, mailbox, timerVars, userMsgs, vloc, calls, histVars>>
    /\ UNCHANGED extVars

\* _register_verification_timeout: timer.start()
SpawnTimerStart(a) ==
    /\ apc[a] = "sp_timer"
    /\ wd' = [wd EXCEPT ![aloc[a].f] = "armed"]
    /\ apc' = [apc EXCEPT ![a] = "sp_reg"]
    /\ UNCHANGED <<storeVars, graphVars, timeouts, wloc, aloc, userMsgs,
                   verifierVars, histVars>>
    /\ UNCHANGED extVars

\* _register_verification_timeout: _verification_timeouts[report_id] = timer
SpawnRegister(a) ==
    /\ apc[a] = "sp_reg"
    /\ timeouts' = [timeouts EXCEPT ![reports[aloc[a].f].id] = aloc[a].f]
    /\ apc' = [apc EXCEPT ![a] = "idle"]
    /\ aloc' = [aloc EXCEPT ![a] = NoALoc]
    /\ UNCHANGED <<storeVars, graphVars, wd, wloc, userMsgs, verifierVars, histVars>>
    /\ UNCHANGED extVars


\* --------------------------------------------------------------- finish_scan
\* _check_active_agents: a node other than the caller's is running or stopping
ActiveAgents(a) ==
    \/ \E b \in Agents \ {a} : anode[b] \in {"running", "stopping"}
    \/ \E k \in Findings : vnode[k] \in {"running", "stopping"}

\* finish_scan: _validate_root_agent, _validate_content, _check_active_agents
FinishScanCheckActive(a, contentOk) ==
    /\ apc[a] = "idle"
    /\ IF ParentOf(a) # NoParent \/ ~contentOk \/ ActiveAgents(a)
       THEN UNCHANGED apc
       ELSE apc' = [apc EXCEPT ![a] = "fs_pending"]
    /\ UNCHANGED <<storeVars, graphVars, timerVars, aloc, userMsgs, verifierVars, histVars>>
    /\ UNCHANGED extVars

\* finish_scan: _check_pending_verifications
FinishScanCheckPending(a) ==
    /\ apc[a] = "fs_pending"
    /\ apc' = [apc EXCEPT ![a] = IF pending # <<>> THEN "idle" ELSE "fs_final"]
    /\ UNCHANGED <<storeVars, graphVars, timerVars, aloc, userMsgs, verifierVars, histVars>>
    /\ UNCHANGED extVars

\* finish_scan: _finalize_with_tracer returns scan_completed; the loop then
\* marks the agent completed and (interactive mode) waits for input
FinishScanFinalize(a) ==
    /\ apc[a] = "fs_final"
    /\ finalScan' = TRUE
    /\ apc' = [apc EXCEPT ![a] = "waiting"]
    /\ UNCHANGED <<reports, pending, verified, rejected, manual, graphVars, timerVars,
                   aloc, userMsgs, verifierVars, histVars>>
    /\ UNCHANGED extVars

\* ------------------------------------------------- waiting and the mailbox
\* wait_for_message
WaitForMessage(a) ==
    /\ apc[a] = "idle"
    /\ apc' = [apc EXCEPT ![a] = "waiting"]
    /\ anode' = [anode EXCEPT ![a] = "waiting"]
    /\ UNCHANGED <<storeVars, vnode, vparent, mailbox, timerVars, aloc, userMsgs,
                   verifierVars, histVars>>
    /\ UNCHANGED extVars

\* send_user_message_to_agent
SendUserMessage(a) ==
    /\ userMsgs < MaxUserMsgs
    /\ userMsgs' = userMsgs + 1
    /\ mailbox' = [mailbox EXCEPT ![a] = Append(@, [from |-> "user", read |-> FALSE])]
    /\ UNCHANGED <<storeVars, anode, vnode, vparent, timerVars, apc, aloc,
                   verifierVars, histVars>>
    /\ UNCHANGED extVars

HasUnread(a) == \E i \in 1 .. Len(mailbox[a]) : ~mailbox[a][i].read

\* BaseAgent._check_agent_messages: every unread envelope is appended to the
\* log and marked read; a waiting agent resumes.  Only the tracer's status is
\* set to running, the graph node keeps its status.
CheckAgentMessages(a) ==
    /\ apc[a] \in {"idle", "waiting"}
    /\ HasUnread(a)
    /\ mailbox' = [mailbox EXCEPT ![a] = [i \in 1 .. Len(@) |-> [@[i] EXCEPT !.read = TRUE]]]
    /\ apc' = [apc EXCEPT ![a] = "idle"]
    /\ UNCHANGED <<storeVars, anode, vnode, vparent, timerVars, aloc, userMsgs,
                   verifierVars, histVars>>
    /\ UNCHANGED extVars

\* BaseAgent._wait_for_input: has_waiting_timeout
ResumeByTimeout(a) ==
    /\ apc[a] = "waiting"
    /\ apc' = [apc EXCEPT ![a] = "idle"]
    /\ anode' = [anode EXCEPT ![a] = "running"]
    /\ UNCHANGED <<storeVars, vnode, vparent, mailbox, timerVars, aloc, userMsgs,
                   verifierVars, histVars>>
    /\ UNCHANGED extVars

\* ------------------------------------------------ verify_vulnerability_report
\* Lines 152-176: the argument checks and tracer.get_pending_report.
VerifyBegin(k, rid, isVerified, hasReason) ==
    /\ vpc[k] = "run"
    /\ calls[k] < MaxToolCalls
    /\ calls' = [calls EXCEPT ![k] = @ + 1]
    /\ IF (~isVerified /\ ~hasReason) \/ GetPendingReport(rid) = 0
       THEN /\ vpc' = [vpc EXCEPT ![k] = "ret_fail"]
            /\ UNCHANGED vloc
       ELSE /\ vpc' = [vpc EXCEPT ![k] = "vf_cancel"]
            /\ vloc' = [vloc EXCEPT ![k] = [NoLoc EXCEPT !.rid = rid, !.verified = isVerified,
                                                         !.f = GetPendingReport(rid)]]
    /\ UNCHANGED <<storeVars, graphVars, timerVars, agentVars, histVars>>
    /\ UNCHANGED extVars

\* _cancel_verification_timeout: pop the id's timer and cancel it.  cancel()
\* stops a timer that has not fired; a handler that has started runs on.
CancelVerificationTimeout(rid) ==
    /\ timeouts' = [timeouts EXCEPT ![rid] = 0]
    /\ wd' = IF timeouts[rid] # 0 /\ wd[timeouts[rid]] = "armed"
             THEN [wd EXCEPT ![timeouts[rid]] = "cancelled"]
             ELSE wd

\* VerifyCancelTimeout with a slip: evidence that fails the check is recorded
\* as a rejection before the call returns success = false
RejectOnInvalidEvidence(k, ev) ==
    /\ vpc[k] = "vf_cancel"
    /\ CancelVerificationTimeout(vloc[k].rid)
    /\ vloc' = [vloc EXCEPT ![k].ev = IF vloc[k].verified THEN ev ELSE NoEvidence]
    /\ IF vloc[k].verified /\ ~ValidateTwoPhaseEvidence(ev, reports[vloc[k].f].vtype)
          /\ IndexOfId(pending, vloc[k].rid) # 0
       THEN /\ rejected' = Append(rejected, pending[IndexOfId(pending, vloc[k].rid)])
            /\ pending' = PopAt(pending, IndexOfId(pending, vloc[k].rid))
            /\ vpc' = [vpc EXCEPT ![k] = "ret_fail"]
       ELSE /\ vpc' = [vpc EXCEPT ![k] =
                        IF ~vloc[k].verified THEN "rej_scan"
                        ELSE IF ValidateTwoPhaseEvidence(ev, reports[vloc[k].f].vtype)
                             THEN "fin_scan" ELSE "ret_fail"]
            /\ UNCHANGED <<pending, rejected>>
    /\ UNCHANGED <<reports, verified, manual, finalScan, graphVars, wloc, agentVars, calls,
                   histVars>>
    /\ UNCHANGED extVars

\* Lines 178-201: the timer is cancelled, then (verified = true) the evidence
\* is checked against the type of the report found at line 171.  The evidence
\* argument ev is first read here (and only when verified = true).  The
\* attempt counter of line 187 is not part of the model.
VerifyCancelTimeout(k, ev) ==
    /\ vpc[k] = "vf_cancel"
    /\ CancelVerificationTimeout(vloc[k].rid)
    /\ vpc' = [vpc EXCEPT ![k] =
                 IF ~vloc[k].verified THEN "rej_scan"
                 ELSE IF ValidateTwoPhaseEvidence(ev, reports[vloc[k].f].vtype)
                      THEN "fin_scan" ELSE "ret_fail"]
    /\ vloc' = [vloc EXCEPT ![k].ev = IF vloc[k].verified THEN ev ELSE NoEvidence]
    /\ UNCHANGED <<storeVars, graphVars, wloc, agentVars, calls, histVars>>
    /\ UNCHANGED extVars

\* finalize_vulnerability_report / reject_vulnerability_report: the loop that
\* looks the id up in the pending list
MoveScan(k, next) ==
    /\ IF IndexOfId(pending, vloc[k].rid) = 0
       THEN /\ vpc' = [vpc EXCEPT ![k] = "ret_fail"]
            /\ UNCHANGED vloc
       ELSE /\ vpc' = [vpc EXCEPT ![k] = next]
            /\ vloc' = [vloc EXCEPT ![k].i = IndexOfId(pending, vloc[k].rid),
                                    ![k].f = pending[IndexOfId(pending, vloc[k].rid)]]
    /\ UNCHANGED <<storeVars, graphVars, timerVars, agentVars, calls, histVars>>
    /\ UNCHANGED extVars

FinalizeScan(k) ==
    /\ vpc[k] = "fin_scan"
    /\ MoveScan(k, "fin_append")

\* report["status"] = "verified"; self.vulnerability_reports.append(report)
FinalizeAppend(k) ==
    /\ vpc[k] = "fin_append"
    /\ reports' = [reports EXCEPT ![vloc[k].f].status = "verified"]
    /\ verified' = Append(verified, vloc[k].f)
    /\ vpc' = [vpc EXCEPT ![k] = "fin_pop"]
    /\ UNCHANGED <<pending, rejected, manual, finalScan, graphVars, timerVars, agentVars,
                   vloc, calls, histVars>>
    /\ UNCHANGED extVars

\* self.pending_vulnerability_reports.pop(i): removes whatever is at i now,
\* IndexError when the list has become shorter (the tool then returns an
\* error string)
MovePop(k) ==
    /\ IF vloc[k].i <= Len(pending)
       THEN /\ pending' = PopAt(pending, vloc[k].i)
            /\ decided' = [decided EXCEPT ![vloc[k].f] = TRUE]
            /\ vpc' = [vpc EXCEPT ![k] = "ret_ok"]
       ELSE /\ vpc' = [vpc EXCEPT ![k] = "ret_err"]
            /\ UNCHANGED <<pending, decided>>
    /\ UNCHANGED <<reports, verified, rejected, manual, finalScan, graphVars, timerVars,
                   agentVars, vloc, calls>>
    /\ UNCHANGED extVars

FinalizePop(k) ==
    /\ vpc[k] = "fin_pop"
    /\ MovePop(k)

RejectScan(k) ==
    /\ vpc[k] = "rej_scan"
    /\ MoveScan(k, "rej_append")

\* report["status"] = "rejected"; self.rejected_vulnerability_reports.append(report)
RejectAppend(k) ==
    /\ vpc[k] = "rej_append"
    /\ reports' = [reports EXCEPT ![vloc[k].f].status = "rejected",
                                  ![vloc[k].f].reason = "rejection_reason"]
    /\ rejected' = Append(rejected, vloc[k].f)
    /\ vpc' = [vpc EXCEPT ![k] = "rej_pop"]
    /\ UNCHANGED <<pending, verified, manual, finalScan, graphVars, timerVars, agentVars,
                   vloc, calls, histVars>>
    /\ UNCHANGED extVars

RejectPop(k) ==
    /\ vpc[k] = "rej_pop"
    /\ MovePop(k)

\* The tool's result goes into the observation and the loop goes on.
ToolReturn(k) ==
    /\ vpc[k] \in {"ret_ok", "ret_fail", "ret_err", "af_denied"}
    /\ vpc' = [vpc EXCEPT ![k] = "run"]
    /\ vloc' = [vloc EXCEPT ![k] = NoLoc]
    /\ UNCHANGED <<storeVars, graphVars, timerVars, agentVars, calls, histVars>>
    /\ UNCHANGED extVars

\* --------------------------------------------------------------- agent_finish
\* Lines 365-411: the gate of a verification node
AgentFinishCheck(k) ==
    /\ vpc[k] = "run"
    /\ calls[k] < MaxToolCalls
    /\ calls' = [calls EXCEPT ![k] = @ + 1]
    /\ vpc' = [vpc EXCEPT ![k] = IF IsReportVerified(ReportIdOf(k)) THEN "af_set" ELSE "af_denied"]
    /\ UNCHANGED <<storeVars, graphVars, timerVars, agentVars, vloc, histVars>>
    /\ UNCHANGED extVars

\* Lines 413-490: the node's status and result, the report to the parent
\* (the arguments success and report_to_parent are first read here);
\* agent_completed is returned and the loop (interactive) waits for input
AgentFinishSet(k, success, notify) ==
    /\ vpc[k] = "af_set"
    /\ vnode' = [vnode EXCEPT ![k] = IF success THEN "finished" ELSE "failed"]
    /\ mailbox' = IF notify /\ vparent[k] \in Agents
                  THEN [mailbox EXCEPT ![vparent[k]] = Append(@, [from |-> "verifier", read |-> FALSE])]
                  ELSE mailbox
    /\ vpc' = [vpc EXCEPT ![k] = "waiting"]
    /\ UNCHANGED <<storeVars, anode, vparent, timerVars, agentVars, vloc, calls, histVars>>
    /\ UNCHANGED extVars

\* BaseAgent._wait_for_input of a verifier: has_waiting_timeout
VerifierResumeByTimeout(k) ==
    /\ vpc[k] = "waiting"
    /\ vpc' = [vpc EXCEPT ![k] = "run"]
    /\ vnode' = [vnode EXCEPT ![k] = "running"]
    /\ UNCHANGED <<storeVars, anode, vparent, mailbox, timerVars, agentVars, vloc, calls,
                   histVars>>
    /\ UNCHANGED extVars

\* AgentState.has_reached_max_iterations of verifier k: every iteration of a
\* verifier is one tool call, and MaxToolCalls stands for max_iterations = 50
HasReachedMaxIterations(k) == calls[k] >= MaxToolCalls

\* agent_loop at the cap: should_stop() holds, the verifier's config has no
\* non_interactive entry, so the loop does not return: _enter_waiting_state
\* parks the agent (the Tracer's status becomes "stopped", the graph node's
\* status stays) and the loop goes on
VerifierShouldStop(k) ==
    /\ vpc[k] = "run"
    /\ HasReachedMaxIterations(k)
    /\ vpc' = [vpc EXCEPT ![k] = "waiting"]
    /\ UNCHANGED <<storeVars, graphVars, timerVars, agentVars, vloc, calls, histVars>>
    /\ UNCHANGED extVars

\* ------------------------------------------------------- add_to_manual_review
\* the statements after the pop: status, review_reason, the append
ManualAppend(f, reason) ==
    /\ reports' = [reports EXCEPT ![f].status = "needs_manual_review", ![f].reason = reason]
    /\ manual' = Append(manual, f)

\* ---------------------------------------------- run_verification, the except
\* An exception leaves verify_vulnerability: _auto_reject_pending_report
\* starts with tracer.get_pending_report (line 334).
VerifierRaise(k) ==
    /\ vpc[k] = "run"
    /\ vpc' = [vpc EXCEPT ![k] = IF GetPendingReport(ReportIdOf(k)) = 0 THEN "ex_status" ELSE "ex_scan"]
    /\ UNCHANGED <<storeVars, graphVars, timerVars, agentVars, vloc, calls, histVars>>
    /\ UNCHANGED extVars

\* add_to_manual_review, the loop up to the matching entry
ExceptScan(k) ==
    /\ vpc[k] = "ex_scan"
    /\ vpc' = [vpc EXCEPT ![k] = IF IndexOfId(pending, ReportIdOf(k)) = 0 THEN "ex_status" ELSE "ex_pop"]
    /\ vloc' = [vloc EXCEPT ![k].i = IndexOfId(pending, ReportIdOf(k))]
    /\ UNCHANGED <<storeVars, graphVars, timerVars, agentVars, calls, histVars>>
    /\ UNCHANGED extVars

\* report = self.pending_vulnerability_reports.pop(i); an IndexError is
\* caught by _auto_reject_pending_report
ExceptPop(k) ==
    /\ vpc[k] = "ex_pop"
    /\ IF vloc[k].i <= Len(pending)
       THEN /\ pending' = PopAt(pending, vloc[k].i)
            /\ vloc' = [vloc EXCEPT ![k].f = pending[vloc[k].i]]
            /\ vpc' = [vpc EXCEPT ![k] = "ex_append"]
       ELSE /\ vpc' = [vpc EXCEPT ![k] = "ex_status"]
            /\ UNCHANGED <<pending, vloc>>
    /\ UNCHANGED <<reports, verified, rejected, manual, finalScan, graphVars, timerVars,
                   agentVars, calls, histVars>>
    /\ UNCHANGED extVars

ExceptAppend(k) ==
    /\ vpc[k] = "ex_append"
    /\ ManualAppend(vloc[k].f, "agent_exception")
    /\ vpc' = [vpc EXCEPT ![k] = "ex_status"]
    /\ UNCHANGED <<pending, verified, rejected, finalScan, graphVars, timerVars, agentVars,
                   vloc, calls, histVars>>
    /\ UNCHANGED extVars

\* _update_verification_agent_status(agent_id, "failed"); the thread ends
ExceptStatus(k) ==
    /\ vpc[k] = "ex_status"
    /\ vnode' = [vnode EXCEPT ![k] = "failed"]
    /\ vpc' = [vpc EXCEPT ![k] = "dead"]
    /\ vloc' = [vloc EXCEPT ![k] = NoLoc]
    /\ UNCHANGED <<storeVars, anode, vparent, mailbox, timerVars, agentVars, calls, histVars>>
    /\ UNCHANGED extVars

\* ------------------------------------------------------------ timeout_handler
\* The timer of finding k runs out: a cancelled timer does nothing, an armed
\* one runs timeout_handler, which tests thread.is_alive() and then starts
\* _auto_reject_pending_report with tracer.get_pending_report.
Expire(k) ==
    /\ wd[k] \in {"armed", "cancelled"}
    /\ wd' = [wd EXCEPT ![k] =
                IF wd[k] = "cancelled" THEN "lapsed"
                ELSE IF ~IsAlive(k) THEN "h_dict"
                ELSE IF GetPendingReport(ReportIdOf(k)) = 0 THEN "h_status"
                ELSE "h_scan"]
    /\ UNCHANGED <<storeVars, graphVars, timeouts, wloc, agentVars, verifierVars, histVars>>
    /\ UNCHANGED extVars

HandlerScan(k) ==
    /\ wd[k] = "h_scan"
    /\ wd' = [wd EXCEPT ![k] = IF IndexOfId(pending, ReportIdOf(k)) = 0 THEN "h_status" ELSE "h_pop"]
    /\ wloc' = [wloc EXCEPT ![k].i = IndexOfId(pending, ReportIdOf(k))]
    /\ UNCHANGED <<storeVars, graphVars, timeouts, agentVars, verifierVars, histVars>>
    /\ UNCHANGED extVars

HandlerPop(k) ==
    /\ wd[k] = "h_pop"
    /\ IF wloc[k].i <= Len(pending)
       THEN /\ pending' = PopAt(pending, wloc[k].i)
            /\ wloc' = [wloc EXCEPT ![k].f = pending[wloc[k].i]]
            /\ wd' = [wd EXCEPT ![k] = "h_append"]
       ELSE /\ wd' = [wd EXCEPT ![k] = "h_status"]
            /\ UNCHANGED <<pending, wloc>>
    /\ UNCHANGED <<reports, verified, rejected, manual, finalScan, graphVars, timeouts,
                   agentVars, verifierVars, histVars>>
    /\ UNCHANGED extVars

HandlerAppend(k) ==
    /\ wd[k] = "h_append"
    /\ ManualAppend(wloc[k].f, "verification_timeout")
    /\ wd' = [wd EXCEPT ![k] = "h_status"]
    /\ UNCHANGED <<pending, verified, rejected, finalScan, graphVars, timeouts, wloc,
                   agentVars, verifierVars, histVars>>
    /\ UNCHANGED extVars

\* _update_verification_agent_status(agent_id, "timeout")
HandlerStatus(k) ==
    /\ wd[k] = "h_status"
    /\ vnode' = [vnode EXCEPT ![k] = "timeout"]
    /\ wd' = [wd EXCEPT ![k] = "h_dict"]
    /\ UNCHANGED <<storeVars, anode, vparent, mailbox, timeouts, wloc, agentVars,
                   verifierVars, histVars>>
    /\ UNCHANGED extVars

\* _verification_timeouts.pop(report_id, None)
HandlerUnregister(k) ==
    /\ wd[k] = "h_dict"
    /\ timeouts' = [timeouts EXCEPT ![ReportIdOf(k)] = 0]
    /\ wd' = [wd EXCEPT ![k] = "fired"]
    /\ wloc' = [wloc EXCEPT ![k] = NoWLoc]
    /\ UNCHANGED <<storeVars, graphVars, agentVars, verifierVars, histVars>>
    /\ UNCHANGED extVars

\* ------------------------------------------------------------ tool executor
\* executor.py: process_tool_invocations runs the invocations of one turn.
\* A tool_result block is [tool, result]; a message is its list of blocks.

\* get_tool_names(): names bound by register_tool (the tools seen here)
ToolNames == {"finish_scan", "agent_finish", "view_agent_graph", "think"}

\* the names an LLM's turn can carry: a registered one or any other
InvNames == ToolNames \cup {"no_such_tool"}

\* tools registered with parallelizable=True
Parallelizable == {"view_agent_graph"}

FinishTools == {"finish_scan", "agent_finish"}

InvocationLists == UNION {[1 .. n -> InvNames] : n \in 0 .. MaxInvocations}

\* what a tool's run can come to: a result, a finish tool's refusal (a dict
\* without scan_completed / agent_completed), an exception
Outcomes == {"ok", "refused", "raises"}

\* validate_tool_availability
ValidateToolAvailability(name) == name \in ToolNames

\* execute_tool_with_validation: an unknown name gives "Error: <msg>", an
\* exception of the tool "Error executing <name>: <msg>", else the result
ExecuteToolWithValidation(name, out) ==
    IF ~ValidateToolAvailability(name) THEN "error_unavailable"
    ELSE IF out = "raises" THEN "error_executing"
    ELSE IF out = "refused" THEN "refused"
    ELSE "ok"

IsErrorString(r) == r \in {"error_unavailable", "error_executing"}

\* ToolShouldFinish with a slip: the result is not looked at
ToolShouldFinishWhateverResult(name, r) == name \in FinishTools

\* _execute_single_tool, lines 226-234: the finish flag of one result
ToolShouldFinish(name, r) == name \in FinishTools /\ r = "ok"

\* _format_tool_result: the <tool_result> block of one invocation; inv tells
\* whose result the block's text is
FormatToolResult(i, name, r) == [inv |-> i, tool |-> name, result |-> r]

\* process_tool_invocations is entered with the turn's list
ProcessToolInvocations(list) ==
    /\ tpc = "idle"
    /\ invs' = list
    /\ tpc' = "loop"
    /\ ti' = 1
    /\ parts' = <<>>
    /\ shouldFinish' = FALSE
    /\ UNCHANGED <<coreVars, loopVars, auxVars, inflight, executed, failed, history>>

\* the for loop reaches invocation ti: _execute_single_tool logs the start
\* and awaits execute_tool_invocation
ExecuteSingleToolStart ==
    /\ tpc = "loop"
    /\ ti <= Len(invs)
    /\ inflight = {}
    /\ inflight' = {ti}
    /\ executed' = Append(executed, ti)
    /\ UNCHANGED <<coreVars, loopVars, auxVars, invs, tpc, ti, failed, parts, history, shouldFinish>>

\* ExecuteSingleToolEnd with a slip: the exception of a tool is not turned into
\* a result and leaves process_tool_invocations
RaiseToolException(out) ==
    /\ tpc = "loop"
    /\ inflight = {ti}
    /\ out = "refused" => invs[ti] \in FinishTools
    /\ ~ValidateToolAvailability(invs[ti]) => out = "ok"
    /\ inflight' = {}
    /\ failed' = IF IsErrorString(ExecuteToolWithValidation(invs[ti], out))
                 THEN failed \cup {ti} ELSE failed
    /\ IF out = "raises"
       THEN /\ tpc' = "raised"
            /\ UNCHANGED <<parts, shouldFinish, ti>>
       ELSE /\ parts' = Append(parts, FormatToolResult(ti, invs[ti],
                                    ExecuteToolWithValidation(invs[ti], out)))
            /\ shouldFinish' = (shouldFinish \/ ToolShouldFinish(invs[ti],
                                    ExecuteToolWithValidation(invs[ti], out)))
            /\ ti' = ti + 1
            /\ UNCHANGED tpc
    /\ UNCHANGED <<coreVars, loopVars, auxVars, invs, executed, history>>

\* the awaited invocation ends: its block joins observation_parts, its finish
\* flag the turn's, and the loop moves on
ExecuteSingleToolEnd(out) ==
    /\ tpc = "loop"
    /\ inflight = {ti}
    /\ out = "refused" => invs[ti] \in FinishTools
    /\ ~ValidateToolAvailability(invs[ti]) => out = "ok"
    /\ inflight' = {}
    /\ failed' = IF IsErrorString(ExecuteToolWithValidation(invs[ti], out))
                 THEN failed \cup {ti} ELSE failed
    /\ parts' = Append(parts, FormatToolResult(ti, invs[ti],
                                  ExecuteToolWithValidation(invs[ti], out)))
    /\ shouldFinish' = (shouldFinish \/ ToolShouldFinish(invs[ti],
                                  ExecuteToolWithValidation(invs[ti], out)))
    /\ ti' = ti + 1
    /\ UNCHANGED <<coreVars, loopVars, auxVars, invs, tpc, executed, history>>

\* JoinParts with a slip: the blocks wave by wave, the finish tools' last
JoinPartsByWave(ps) ==
    SelectSeq(ps, LAMBDA b : b.tool \notin FinishTools)
        \o SelectSeq(ps, LAMBDA b : b.tool \in FinishTools)

\* "\n\n".join(observation_parts): the blocks in the list's order
JoinParts(ps) == ps

\* lines 281-292: the observation is appended, whatever the list held, and
\* should_agent_finish is returned
AppendObservation ==
    /\ tpc = "loop"
    /\ ti > Len(invs)
    /\ history' = Append(history, JoinParts(parts))
    /\ tpc' = "returned"
    /\ UNCHANGED <<coreVars, loopVars, auxVars, invs, ti, inflight, executed, failed, parts, shouldFinish>>

\* BaseAgent.cancel_current_execution cancels the tool task at its await:
\* CancelledError leaves process_tool_invocations
CancelCurrentExecution ==
    /\ tpc = "loop"
    /\ inflight # {}
    /\ inflight' = {}
    /\ tpc' = "cancelled"
    /\ UNCHANGED <<coreVars, loopVars, auxVars, invs, ti, executed, failed, parts, history, shouldFinish>>

\* ----------------------------------------------------------------- agent_loop
\* BaseAgent.agent_loop of one agent, its AgentState and its mailbox.  Other
\* threads append envelopes to the mailbox and request a stop.  An entry of
\* the message log is [kind, id]; id is the envelope's place in the mailbox
\* for a delivered envelope and 0 otherwise.
Entry(kind) == [kind |-> kind, id |-> 0]

\* HasReachedMax with a slip: > for >=
HasExceededMax(it) == it > MaxIterations

\* AgentState.has_reached_max_iterations
HasReachedMax(it) == it >= MaxIterations

\* AgentState.should_stop
ShouldStop == stopRequested \/ completed \/ HasReachedMax(iteration)

\* AgentState.is_approaching_max_iterations: int(max_iterations * 0.85)
IsApproachingMax(it) == it >= (MaxIterations * ApproachPercent) \div 100

\* the entries of kind k in a log
CountKind(log, k) == Cardinality({i \in 1 .. Len(log) : log[i].kind = k})

\* _initialize_sandbox_and_state: the task is the first message
AgentLoopStart(ni) ==
    /\ lpc = "off"
    /\ nonInteractive' = ni
    /\ messages' = Append(messages, Entry("task"))
    /\ lpc' = "check"
    /\ UNCHANGED <<coreVars, toolVars, auxVars, iteration, completed, stopRequested, waitingForInput,
                   llmFailed, warningSent, inbox, di>>

\* _check_agent_messages: the for loop over the mailbox list starts
CheckAgentMessagesBegin ==
    /\ lpc = "check"
    /\ lpc' = "drain"
    /\ di' = 1
    /\ UNCHANGED <<coreVars, toolVars, auxVars, nonInteractive, iteration, completed, stopRequested,
                   waitingForInput, llmFailed, warningSent, inbox, messages>>

\* AgentState.resume_from_waiting
ResumeFromWaiting ==
    /\ waitingForInput' = FALSE
    /\ stopRequested' = FALSE
    /\ completed' = FALSE
    /\ llmFailed' = FALSE

\* Resumes with a slip: the sender is not looked at
ResumesWhoeverSends(m) == waitingForInput

\* Resumes with a slip: only the user's envelope wakes the agent
ResumesOnlyForUser(m) == waitingForInput /\ m.from = "user"

\* whether the envelope wakes the agent: any does unless the LLM failed, and
\* then only the user's
Resumes(m) == waitingForInput /\ (llmFailed => m.from = "user")

\* DrainEnvelope with a slip: the envelope is not marked read
DrainEnvelopeLeaveUnread ==
    /\ lpc = "drain"
    /\ di <= Len(inbox)
    /\ di' = di + 1
    /\ IF inbox[di].read
       THEN UNCHANGED <<waitingForInput, stopRequested, completed, llmFailed, messages>>
       ELSE /\ IF Resumes(inbox[di])
               THEN ResumeFromWaiting
               ELSE UNCHANGED <<waitingForInput, stopRequested, completed, llmFailed>>
            /\ messages' = Append(messages, [kind |-> "envelope", id |-> di])
    /\ UNCHANGED inbox
    /\ UNCHANGED <<coreVars, toolVars, auxVars, lpc, nonInteractive, iteration, warningSent>>

\* one pass of the for loop: an unread envelope may resume the agent, is
\* added to the log and marked read
DrainEnvelope ==
    /\ lpc = "drain"
    /\ di <= Len(inbox)
    /\ di' = di + 1
    /\ IF inbox[di].read
       THEN UNCHANGED <<waitingForInput, stopRequested, completed, llmFailed, messages, inbox>>
       ELSE /\ IF Resumes(inbox[di])
               THEN ResumeFromWaiting
               ELSE UNCHANGED <<waitingForInput, stopRequested, completed, llmFailed>>
            /\ messages' = Append(messages, [kind |-> "envelope", id |-> di])
            /\ inbox' = [inbox EXCEPT ![di].read = TRUE]
    /\ UNCHANGED <<coreVars, toolVars, auxVars, lpc, nonInteractive, iteration, warningSent>>

\* the list's iterator is exhausted
CheckAgentMessagesEnd ==
    /\ lpc = "drain"
    /\ di > Len(inbox)
    /\ lpc' = "decide"
    /\ UNCHANGED <<coreVars, toolVars, auxVars, nonInteractive, iteration, completed, stopRequested,
                   waitingForInput, llmFailed, warningSent, inbox, di, messages>>

\* HasWaitingTimeout with a slip: a stopped or completed agent is left waiting
HasWaitingTimeoutUnlessStopped(elapsed) ==
    waitingForInput /\ elapsed /\ ~stopRequested /\ ~completed

\* AgentState.has_waiting_timeout; elapsed tells whether more than 600 s
\* have passed since waiting_start_time
HasWaitingTimeout(elapsed) == waitingForInput /\ elapsed

\* _wait_for_input, reached while waiting_for_input (or llm_failed) is set:
\* after the waiting timeout the agent resumes and says so, else it sleeps
WaitForInput(timedOut) ==
    /\ lpc = "decide"
    /\ waitingForInput \/ (~ShouldStop /\ llmFailed)
    /\ timedOut => /\ waitingForInput
                   /\ CountKind(messages, "timeout_notice") < MaxTimeouts
    /\ IF HasWaitingTimeout(timedOut)
       THEN /\ ResumeFromWaiting
            /\ messages' = Append(messages, Entry("timeout_notice"))
            /\ nstatus' = "running"
       ELSE UNCHANGED <<waitingForInput, stopRequested, completed, llmFailed, messages,
                        nstatus>>
    /\ lpc' = "check"
    /\ UNCHANGED <<coreVars, toolVars, nonInteractive, iteration, warningSent, inbox, di,
                   nresult, errors, finalResult, inheritVars, mailVars, runSaved, shapeVars>>

\* _enter_waiting_state
EnterWaitingState ==
    /\ waitingForInput' = TRUE
    /\ llmFailed' = FALSE
    /\ messages' = Append(messages, Entry("waiting_notice"))

\* should_stop() holds: a non-interactive loop returns, an interactive one
\* enters the waiting state
StopBranch ==
    /\ lpc = "decide"
    /\ ~waitingForInput
    /\ ShouldStop
    /\ IF nonInteractive
       THEN /\ lpc' = "returned"
            /\ UNCHANGED <<waitingForInput, llmFailed, messages>>
       ELSE /\ EnterWaitingState
            /\ lpc' = "check"
    /\ UNCHANGED <<coreVars, toolVars, auxVars, nonInteractive, iteration, completed, stopRequested,
                   warningSent, inbox, di>>

\* the warnings of lines 179-202 after the increment to it
Warnings(it) ==
    (IF IsApproachingMax(it) /\ ~warningSent THEN <<Entry("warning")>> ELSE <<>>)
        \o (IF it = MaxIterations - FinalWarningLeft THEN <<Entry("warning")>> ELSE <<>>)

\* increment_iteration and the warnings; the LLM is called next
IncrementIteration ==
    /\ lpc = "decide"
    /\ ~waitingForInput
    /\ ~ShouldStop
    /\ ~llmFailed
    /\ iteration' = iteration + 1
    /\ warningSent' = (warningSent \/ IsApproachingMax(iteration + 1))
    /\ messages' = messages \o Warnings(iteration + 1)
    /\ lpc' = "llm"
    /\ UNCHANGED <<coreVars, toolVars, auxVars, nonInteractive, completed, stopRequested,
                   waitingForInput, llmFailed, inbox, di>>

\* what _process_iteration can come to
IterationOutcomes ==
    {"empty", "text", "tools", "finish", "wait", "llm_failed", "cancelled", "error"}

\* IterationEntries with a slip: the tools of a turn whose LLM request failed
\* are executed all the same
IterationEntriesToolsOnFailure(o) ==
    CASE o = "empty" -> <<Entry("corrective")>>
      [] o = "text" -> <<Entry("assistant")>>
      [] o \in {"tools", "finish", "wait", "llm_failed"} ->
            <<Entry("assistant"), Entry("observation")>>
      [] o = "cancelled" -> <<Entry("assistant")>>
      [] OTHER -> <<>>

\* the entries _process_iteration adds before it returns or raises
IterationEntries(o) ==
    CASE o = "empty" -> <<Entry("corrective")>>
      [] o = "text" -> <<Entry("assistant")>>
      [] o \in {"tools", "finish", "wait"} -> <<Entry("assistant"), Entry("observation")>>
      [] o = "cancelled" -> <<Entry("assistant")>>
      [] OTHER -> <<>>

\* the argument of set_completed after outcome o: agent_finish or finish_scan
\* passes success, a failed LLM request of a non-interactive agent failure
SetCompletedResult(o) ==
    CASE o = "finish" -> "success"
      [] o = "llm_failed" /\ nonInteractive -> "failure"
      [] OTHER -> finalResult

\* _process_iteration and the branches of agent_loop after it.  "wait" is a
\* turn whose tool is wait_for_message; "finish" is one whose tool is a
\* successful agent_finish, which writes the node's status and result;
\* "cancelled" needs the tool task to have been cancelled, which stop_agent
\* does after request_stop; "error" is a RuntimeError, ValueError or
\* TypeError, handled in the except clause that HandleIterationError models.
ProcessIteration(o) ==
    /\ lpc = "llm"
    /\ o = "cancelled" => stopRequested
    /\ completed' = (completed \/ o = "finish" \/ (o = "llm_failed" /\ nonInteractive))
    /\ IF nonInteractive
       THEN /\ lpc' = CASE o \in {"finish", "llm_failed"} -> "returned"
                        [] o = "cancelled" -> "raised"
                        [] o = "error" -> "handle"
                        [] OTHER -> "check"
            /\ messages' = messages \o IterationEntries(o)
            /\ waitingForInput' = (waitingForInput \/ o = "wait")
            /\ llmFailed' = (llmFailed /\ o # "wait")
       ELSE /\ lpc' = IF o = "error" THEN "handle" ELSE "check"
            /\ messages' = messages \o IterationEntries(o)
                               \o (IF o \in {"finish", "cancelled"}
                                   THEN <<Entry("waiting_notice")>> ELSE <<>>)
            /\ waitingForInput' = (waitingForInput \/ o \in {"finish", "cancelled", "wait", "llm_failed"})
            /\ llmFailed' = IF o \in {"finish", "cancelled", "wait"} THEN FALSE
                            ELSE IF o = "llm_failed" THEN TRUE ELSE llmFailed
    /\ nstatus' = CASE o = "wait" -> "waiting"
                     [] o = "finish" -> "finished"
                     [] OTHER -> nstatus
    /\ nresult' = IF o = "finish" THEN "agent_finish" ELSE nresult
    /\ errors' = IF o \in {"llm_failed", "cancelled"} THEN errors + 1 ELSE errors
    /\ finalResult' = SetCompletedResult(o)
    /\ UNCHANGED inheritVars
    /\ UNCHANGED <<coreVars, toolVars, nonInteractive, iteration, stopRequested, warningSent,
                   inbox, di, mailVars, runSaved, shapeVars>>

\* _handle_iteration_error and the except clause of lines 257-265: the error
\* is added to the error list, the handler returns True and the clause's
\* body is skipped
HandleIterationError ==
    /\ lpc = "handle"
    /\ errors' = errors + 1
    /\ lpc' = "check"
    /\ UNCHANGED <<finalResult, inheritVars>>
    /\ UNCHANGED <<coreVars, toolVars, nonInteractive, iteration, completed, stopRequested,
                   waitingForInput, llmFailed, warningSent, inbox, di, messages,
                   nodeVars, mailVars, runSaved, shapeVars>>

\* _run_agent_in_thread after agent_loop has returned: the else clause.  A
\* CancelledError is no Exception and passes the except clause by.
RunAgentInThreadEnd ==
    /\ lpc = "returned"
    /\ lpc' = "exited"
    /\ nstatus' = IF stopRequested THEN "stopped" ELSE "completed"
    /\ nresult' = "agent_loop"
    /\ UNCHANGED <<coreVars, toolVars, nonInteractive, iteration, completed, stopRequested,
                   waitingForInput, llmFailed, warningSent, inbox, di, messages,
                   errors, finalResult, inheritVars, mailVars, runSaved, shapeVars>>

\* the node statuses stop_agent takes for "already stopped"
StoppedStatuses == {"completed", "error", "failed", "stopped"}

\* AgentState.request_stop
RequestStop == stopRequested' = TRUE

\* stop_agent in another thread: unless the node is already stopped, a stop
\* is requested, the tool task cancelled, and the node's status and result
\* are written
StopAgent ==
    /\ nstatus \notin StoppedStatuses
    /\ RequestStop
    /\ nstatus' = "stopping"
    /\ nresult' = "stop_agent"
    /\ UNCHANGED <<coreVars, toolVars, lpc, nonInteractive, iteration, completed,
                   waitingForInput, llmFailed, warningSent, inbox, di, messages,
                   errors, finalResult, inheritVars, mailVars, runSaved, shapeVars>>

\* SendEnvelope with a slip: the sender itself takes the recipient out of
\* the waiting state
SendEnvelopeAndResume(from) ==
    /\ Len(inbox) < MaxEnvelopes
    /\ stamping[from] = 0
    /\ clock' = clock + 1
    /\ inbox' = Append(inbox, [from |-> from, read |-> FALSE])
    /\ stamps' = Append(stamps, clock + 1)
    /\ waitingForInput' = FALSE
    /\ UNCHANGED <<coreVars, toolVars, lpc, nonInteractive, iteration, completed, stopRequested,
                   llmFailed, warningSent, di, messages,
                   nodeVars, errors, finalResult, inheritVars, stamping, runSaved, shapeVars>>

\* send_message_to_agent, send_user_message_to_agent and agent_finish in
\* other threads, run without another thread in between: the envelope is
\* built with the time of the clock and appended to the mailbox list
SendEnvelope(from) ==
    /\ Len(inbox) < MaxEnvelopes
    /\ stamping[from] = 0
    /\ clock' = clock + 1
    /\ inbox' = Append(inbox, [from |-> from, read |-> FALSE])
    /\ stamps' = Append(stamps, clock + 1)
    /\ UNCHANGED <<coreVars, toolVars, lpc, nonInteractive, iteration, completed, stopRequested,
                   waitingForInput, llmFailed, warningSent, di, messages,
                   nodeVars, errors, finalResult, inheritVars, stamping, runSaved, shapeVars>>

\* the same in two steps, as other threads see it: message_data is built,
\* its "timestamp" being datetime.now(UTC) ...
BuildEnvelope(from) ==
    /\ stamping[from] = 0
    /\ Len(inbox) + Cardinality({s \in Senders : stamping[s] # 0}) < MaxEnvelopes
    /\ clock' = clock + 1
    /\ stamping' = [stamping EXCEPT ![from] = clock + 1]
    /\ UNCHANGED <<coreVars, toolVars, loopVars, nodeVars, errors, finalResult, inheritVars, stamps, runSaved, shapeVars>>

\* ... and appended to _agent_messages[target]
AppendEnvelope(from) ==
    /\ stamping[from] # 0
    /\ inbox' = Append(inbox, [from |-> from, read |-> FALSE])
    /\ stamps' = Append(stamps, stamping[from])
    /\ stamping' = [stamping EXCEPT ![from] = 0]
    /\ UNCHANGED <<coreVars, toolVars, lpc, nonInteractive, iteration, completed, stopRequested,
                   waitingForInput, llmFailed, warningSent, di, messages,
                   nodeVars, errors, finalResult, inheritVars, clock, runSaved, shapeVars>>

\* Tracer.cleanup: agents_graph_actions has no cleanup_all_agents, the import
\* raises ImportError, which is passed over, and the run data is saved
TracerCleanup ==
    /\ ~runSaved
    /\ runSaved' = TRUE
    /\ UNCHANGED <<coreVars, toolVars, loopVars, nodeVars, errors, finalResult, inheritVars, mailVars, shapeVars>>

\* ---------------------------------------------------------- the agent graph
\* The nodes and edges of _agent_graph as create_agent and the spawn of a
\* verifier write them.  The root's node is there from the start; an id is
\* the number of the node in the order of creation.
HasNode(i) == \E n \in gnodes : n.id = i

\* AgentState.agent_id of a new state: an id no node has
NewId == Cardinality(gnodes) + 1

\* _agent_graph["nodes"][id] = node
PutNode(nodes, i, parent, kind) ==
    {n \in nodes : n.id # i} \cup {[id |-> i, parent |-> parent, kind |-> kind]}

\* BaseAgent._add_to_agents_graph: the delegation edge of a node with a parent
DelegationEdge(parent, i) ==
    IF parent # NoNode THEN {[from |-> parent, to |-> i, type |-> "delegation"]} ELSE {}

\* BaseAgent._add_to_agents_graph: the mailbox of agent i, unless it has one
AddBox(boxes, i) == IF i \in DOMAIN boxes THEN boxes ELSE (i :> <<>>) @@ boxes

\* what create_agent can be given as prompt_modules: up to five names of the
\* registry, more than five names, a name the registry does not have
ModuleInputs == {"valid", "too_many", "unknown"}

\* ModulesAccepted with a slip: the names are not looked up
ModulesAcceptedUnchecked(mods) == mods # "too_many"

\* the two checks of prompt_modules in create_agent
ModulesAccepted(mods) == mods = "valid"

\* create_agent called by agent p: after the checks of prompt_modules the
\* state's parent_id is the caller's id, the agent's constructor adds the
\* node, the edge and the mailbox, and the thread is started and registered
CreateAgent(p, mods) ==
    /\ HasNode(p)
    /\ IF ModulesAccepted(mods)
       THEN /\ Cardinality(gnodes) < MaxNodes
            /\ gnodes' = PutNode(gnodes, NewId, p, "agent")
            /\ gedges' = gedges \cup DelegationEdge(p, NewId)
            /\ gboxes' = AddBox(gboxes, NewId)
            /\ gworkers' = gworkers \cup {NewId}
            /\ gresult' = [tool |-> "create_agent", success |-> TRUE, id |-> NewId]
       ELSE /\ gresult' = [tool |-> "create_agent", success |-> FALSE, id |-> NoNode]
            /\ UNCHANGED <<gnodes, gedges, gboxes, gworkers>>
    /\ UNCHANGED <<coreVars, toolVars, loopVars, nodeVars, errors, finalResult, inheritVars, mailVars, runSaved,
                   medges>>

\* TargetFound with a slip: the target is not looked up
TargetFoundAlways(t) == TRUE

\* the check of target_agent_id in send_message_to_agent
TargetFound(t) == HasNode(t)

\* send_message_to_agent called by agent s for target t: unless t is no node
\* of the graph, the envelope is appended to t's mailbox, made if need be,
\* and the message edge to the edge list
SendMessageToAgent(s, t) ==
    /\ HasNode(s)
    /\ IF TargetFound(t)
       THEN /\ Len(medges) < MaxSends
            /\ gboxes' = [AddBox(gboxes, t) EXCEPT ![t] =
                              Append(@, [from |-> s, read |-> FALSE, id |-> Len(medges) + 1])]
            /\ medges' = Append(medges, [from |-> s, to |-> t, id |-> Len(medges) + 1])
            /\ gresult' = [tool |-> "send_message_to_agent", success |-> TRUE,
                           id |-> Len(medges) + 1]
       ELSE /\ gresult' = [tool |-> "send_message_to_agent", success |-> FALSE, id |-> 0]
            /\ UNCHANGED <<gboxes, medges>>
    /\ UNCHANGED <<coreVars, toolVars, loopVars, nodeVars, errors, finalResult, inheritVars, mailVars, runSaved,
                   gnodes, gedges, gworkers>>

\* SpawnParentId with a slip: the parent's state is not looked at
SpawnParentIdNone(p) == NoNode

\* _spawn_verification_agent: parent_id is the id of parent_agent_state, the
\* state of the agent that called create_vulnerability_report
SpawnParentId(p) == p

\* _spawn_verification_agent called for agent p: the agent's constructor adds
\* the node and the delegation edge, then the node is written once more and
\* the spawned_verification edge added
SpawnVerificationAgent(p) ==
    /\ HasNode(p)
    /\ Cardinality(gnodes) < MaxNodes
    /\ gnodes' = PutNode(PutNode(gnodes, NewId, SpawnParentId(p), "agent"),
                         NewId, SpawnParentId(p), "verification")
    /\ gedges' = gedges \cup DelegationEdge(SpawnParentId(p), NewId)
                        \cup (IF SpawnParentId(p) # NoNode
                              THEN {[from |-> SpawnParentId(p), to |-> NewId,
                                     type |-> "spawned_verification"]}
                              ELSE {})
    /\ gboxes' = AddBox(gboxes, NewId)
    /\ gworkers' = gworkers \cup {NewId}
    /\ UNCHANGED <<coreVars, toolVars, loopVars, nodeVars, errors, finalResult, inheritVars, mailVars, runSaved,
                   medges, gresult>>

\* ------------------------------------------------------- inherited context
\* An agent with some messages in its log calls create_agent; the child's
\* thread copies the inherited messages while the parent goes on.  The list
\* create_agent hands to the thread is get_conversation_history(), the
\* parent's own list.
inheritFrame == <<coreVars, toolVars, loopVars, nodeVars, errors, finalResult, mailVars,
                  runSaved, shapeVars>>

\* the parent's turns before its call: add_message
ParentAddMessage ==
    /\ ppc = "work"
    /\ Len(phist) < MaxHistory
    /\ phist' = Append(phist, [kind |-> "parent", id |-> Len(phist) + 1])
    /\ UNCHANGED <<ppc, pcomp, atCall, shared, cpc, ci, clog>>
    /\ UNCHANGED inheritFrame

\* create_agent: inherited_messages is the parent's list if inherit_context
\* is set and a new empty list otherwise
InheritedMessages(inherit) == inherit

\* create_agent in the parent's turn: the thread is started
CreateAgentCall(inherit) ==
    /\ ppc = "work"
    /\ phist # <<>>
    /\ atCall' = phist
    /\ shared' = InheritedMessages(inherit)
    /\ cpc' = "start"
    /\ ppc' = "observe"
    /\ UNCHANGED <<phist, pcomp, ci, clog>>
    /\ UNCHANGED inheritFrame

\* process_tool_invocations after the tool has returned: the observation is
\* appended to conversation_history, the parent's list
ParentAppendObservation ==
    /\ ppc = "observe"
    /\ phist' = Append(phist, Entry("observation"))
    /\ ppc' = "generate"
    /\ UNCHANGED <<pcomp, atCall, shared, cpc, ci, clog>>
    /\ UNCHANGED inheritFrame

\* what compress_history returns for a history: the history itself or, when
\* it summarises, a summary followed by the history's last message
CompressHistory(h, summarise) ==
    IF summarise /\ h # <<>> THEN <<Entry("summary"), h[Len(h)]>> ELSE h

\* LLM.generate in the parent's next tick: compress_history, then
\* conversation_history.clear()
ParentCompressClear(summarise) ==
    /\ ppc = "generate"
    /\ pcomp' = CompressHistory(phist, summarise)
    /\ phist' = <<>>
    /\ ppc' = "extend"
    /\ UNCHANGED <<atCall, shared, cpc, ci, clog>>
    /\ UNCHANGED inheritFrame

\* conversation_history.extend(compressed_history)
ParentExtend ==
    /\ ppc = "extend"
    /\ phist' = pcomp
    /\ ppc' = "request"
    /\ UNCHANGED <<pcomp, atCall, shared, cpc, ci, clog>>
    /\ UNCHANGED inheritFrame

\* inherited_messages as the child's thread sees it now
Inherited == IF shared THEN phist ELSE <<>>

\* _run_agent_in_thread: "if inherited_messages:" and the opening marker
ChildStart ==
    /\ cpc = "start"
    /\ IF Inherited # <<>>
       THEN /\ clog' = Append(clog, Entry("open"))
            /\ ci' = 1
            /\ cpc' = "copy"
       ELSE /\ cpc' = "task"
            /\ UNCHANGED <<clog, ci>>
    /\ UNCHANGED <<phist, ppc, pcomp, atCall, shared>>
    /\ UNCHANGED inheritFrame

\* one turn of "for msg in inherited_messages": the list's iterator gives
\* the element at its index while the index is inside the list as it is now,
\* and ends otherwise; then the closing marker is added
ChildCopy ==
    /\ cpc = "copy"
    /\ IF ci <= Len(Inherited)
       THEN /\ clog' = Append(clog, Inherited[ci])
            /\ ci' = ci + 1
            /\ UNCHANGED cpc
       ELSE /\ clog' = Append(clog, Entry("close"))
            /\ cpc' = "task"
            /\ UNCHANGED ci
    /\ UNCHANGED <<phist, ppc, pcomp, atCall, shared>>
    /\ UNCHANGED inheritFrame

\* the delegation message with the task
ChildTask ==
    /\ cpc = "task"
    /\ clog' = Append(clog, Entry("task"))
    /\ cpc' = "done"
    /\ UNCHANGED <<phist, ppc, pcomp, atCall, shared, ci>>
    /\ UNCHANGED inheritFrame

\* ----------------------------------------------------------------------- Next
Bool == {TRUE, FALSE}
Made == 1 .. Len(reports)

AgentStep ==
    \E a \in Agents :
        \/ \E t \in VulnTypes, ok \in Bool : CreateReportBegin(a, t, ok)
        \/ AddPendingAppend(a)
        \/ \E spawned \in Bool : SpawnStart(a, spawned)
        \/ SpawnTimerStart(a)
        \/ SpawnRegister(a)
        \/ \E contentOk \in Bool : FinishScanCheckActive(a, contentOk)
        \/ FinishScanCheckPending(a)
        \/ FinishScanFinalize(a)
        \/ WaitForMessage(a)
        \/ SendUserMessage(a)
        \/ CheckAgentMessages(a)
        \/ ResumeByTimeout(a)

\* a verifier's tool calls
DecisionStep ==
    \E k \in Findings :
        \/ \E rid \in IdSet, isVerified \in Bool, hasReason \in Bool :
               VerifyBegin(k, rid, isVerified, hasReason)
        \/ \E ev \in EvidenceInputs : VerifyCancelTimeout(k, ev)
        \/ FinalizeScan(k)
        \/ FinalizeAppend(k)
        \/ FinalizePop(k)
        \/ RejectScan(k)
        \/ RejectAppend(k)
        \/ RejectPop(k)
        \/ ToolReturn(k)
        \/ AgentFinishCheck(k)
        \/ \E success \in Bool, notify \in Bool : AgentFinishSet(k, success, notify)
        \/ VerifierResumeByTimeout(k)
        \/ VerifierShouldStop(k)

\* a verifier's thread ending in the except branch
FailureStep ==
    \E k \in Findings :
        \/ VerifierRaise(k)
        \/ ExceptScan(k)
        \/ ExceptPop(k)
        \/ ExceptAppend(k)
        \/ ExceptStatus(k)

WatchdogStep ==
    \E k \in Findings :
        \/ Expire(k)
        \/ HandlerScan(k)
        \/ HandlerPop(k)
        \/ HandlerAppend(k)
        \/ HandlerStatus(k)
        \/ HandlerUnregister(k)

\* The whole system
Next == AgentStep \/ DecisionStep \/ FailureStep \/ WatchdogStep

Spec == Init /\ [][Next]_vars

\* The finding store and its verification threads, driven by the root agent
\* alone
CreateStep ==
    \/ \E t \in VulnTypes, ok \in Bool : CreateReportBegin("root", t, ok)
    \/ AddPendingAppend("root")
    \/ \E spawned \in Bool : SpawnStart("root", spawned)
    \/ SpawnTimerStart("root")
    \/ SpawnRegister("root")

VerifyNext == CreateStep \/ DecisionStep \/ FailureStep \/ WatchdogStep

SpecVerify == Init /\ [][VerifyNext]_vars

\* The same with its threads scheduled: a verifier thread, a timer thread and
\* the root's thread that can take a step eventually take one.  A verifier
\* raising is no step the scheduler owes.
VerifierRuns == DecisionStep \/ \E k \in Findings : ExceptScan(k) \/ ExceptPop(k) \/ ExceptAppend(k) \/ ExceptStatus(k)

RootRuns == AddPendingAppend("root") \/ SpawnTimerStart("root") \/ SpawnRegister("root")

SpecVerifyFair ==
    SpecVerify /\ WF_vars(VerifierRuns) /\ WF_vars(WatchdogStep) /\ WF_vars(RootRuns)

\* The agents, their reports and the root's finish_scan, with verifiers whose
\* threads end in the except branch
FinishNext == AgentStep \/ FailureStep

SpecFinish == Init /\ [][FinishNext]_vars

\* One call of process_tool_invocations
ToolNext ==
    \/ \E list \in InvocationLists : ProcessToolInvocations(list)
    \/ ExecuteSingleToolStart
    \/ \E out \in Outcomes : ExecuteSingleToolEnd(out)
    \/ AppendObservation
    \/ CancelCurrentExecution

SpecTools == Init /\ [][ToolNext]_vars

\* One agent's loop with the threads that write to its mailbox and state
LoopNext ==
    \/ \E ni \in Bool : AgentLoopStart(ni)
    \/ CheckAgentMessagesBegin
    \/ DrainEnvelope
    \/ CheckAgentMessagesEnd
    \/ \E timedOut \in Bool : WaitForInput(timedOut)
    \/ StopBranch
    \/ IncrementIteration
    \/ \E o \in IterationOutcomes : ProcessIteration(o)
    \/ HandleIterationError
    \/ RunAgentInThreadEnd
    \/ StopAgent
    \/ \E from \in Senders : SendEnvelope(from)

SpecLoop == Init /\ [][LoopNext]_vars

\* The same with the agent's thread scheduled: a step the loop can take it
\* eventually takes, and since the clock runs on, a waiting agent whose ticks
\* go on comes to a tick at which the timeout has passed.
LoopRuns ==
    \/ CheckAgentMessagesBegin
    \/ DrainEnvelope
    \/ CheckAgentMessagesEnd
    \/ WaitForInput(FALSE)
    \/ StopBranch
    \/ IncrementIteration

SpecLoopFair == SpecLoop /\ WF_vars(LoopRuns) /\ SF_vars(WaitForInput(TRUE))

\* The same loop with the senders' threads taken step by step
MailNext ==
    \/ \E ni \in Bool : AgentLoopStart(ni)
    \/ CheckAgentMessagesBegin
    \/ DrainEnvelope
    \/ CheckAgentMessagesEnd
    \/ \E timedOut \in Bool : WaitForInput(timedOut)
    \/ StopBranch
    \/ IncrementIteration
    \/ \E o \in IterationOutcomes : ProcessIteration(o)
    \/ HandleIterationError
    \/ RunAgentInThreadEnd
    \/ \E from \in Senders : BuildEnvelope(from)
    \/ \E from \in Senders : AppendEnvelope(from)

SpecMail == Init /\ [][MailNext]_vars

\* The loop, the threads that stop the agent, and the tracer's cleanup
CleanupNext ==
    \/ \E ni \in Bool : AgentLoopStart(ni)
    \/ CheckAgentMessagesBegin
    \/ CheckAgentMessagesEnd
    \/ \E timedOut \in Bool : WaitForInput(timedOut)
    \/ StopBranch
    \/ IncrementIteration
    \/ \E o \in IterationOutcomes : ProcessIteration(o)
    \/ HandleIterationError
    \/ RunAgentInThreadEnd
    \/ StopAgent
    \/ TracerCleanup

SpecCleanup == Init /\ [][CleanupNext]_vars

\* The agent graph as agents and verifiers are created
GraphNext ==
    \/ \E p \in NodeIds, mods \in ModuleInputs : CreateAgent(p, mods)
    \/ \E p \in NodeIds : SpawnVerificationAgent(p)

SpecGraph == Init /\ [][GraphNext]_vars

\* the agents of a graph of up to MaxTargets nodes send each other messages
PostNext ==
    \/ \E p \in NodeIds, mods \in ModuleInputs :
           Cardinality(gnodes) < MaxTargets /\ CreateAgent(p, mods)
    \/ \E s, t \in NodeIds : SendMessageToAgent(s, t)

SpecPost == Init /\ [][PostNext]_vars

\* A parent, its call of create_agent and the start of the child's thread
InheritNext ==
    \/ ParentAddMessage
    \/ \E inherit \in Bool : CreateAgentCall(inherit)
    \/ ParentAppendObservation
    \/ \E summarise \in Bool : ParentCompressClear(summarise)
    \/ ParentExtend
    \/ ChildStart
    \/ ChildCopy
    \/ ChildTask

SpecInherit == Init /\ [][InheritNext]_vars

\* The root's reports and their verifiers' verify_vulnerability_report calls
\* up to the check of the evidence, with every name of TestNames
ControlNext ==
    \/ CreateStep
    \/ \E k \in Findings, rid \in IdSet, isVerified \in Bool, hasReason \in Bool :
           VerifyBegin(k, rid, isVerified, hasReason)
    \/ \E k \in Findings, ev \in ControlEvidenceInputs : VerifyCancelTimeout(k, ev)
    \/ \E k \in Findings : ToolReturn(k)

SpecControl == Init /\ [][ControlNext]_vars

\* The agents report what they found; the reports are validated, stored and
\* given a verifier, whose thread is not followed
ReportNext ==
    \/ \E a \in Agents, t \in VulnTypes, in \in ReportInputs : CreateVulnerabilityReport(a, t, in)
    \/ \E a \in Agents : AddPendingAppend(a)
    \/ \E a \in Agents, spawned \in Bool : SpawnStart(a, spawned)
    \/ \E a \in Agents : SpawnTimerStart(a)
    \/ \E a \in Agents : SpawnRegister(a)

SpecReport == Init /\ [][ReportNext]_vars

\* ===================================================================== claims
queues == <<pending, verified, rejected, manual>>
InQ(q, f) == \E i \in 1 .. Len(q) : q[i] = f
InTerminal(f) == InQ(verified, f) \/ InQ(rejected, f) \/ InQ(manual, f)
Occurrences(f) == Count(pending, f) + Count(verified, f) + Count(rejected, f) + Count(manual, f)

\* no thread is between the lookup of a move and the end of that move
NoMoveUnderWay ==
    \A k \in Findings :
        /\ vpc[k] \notin {"fin_append", "fin_pop", "rej_append", "rej_pop", "ex_pop", "ex_append"}
        /\ wd[k] \notin {"h_pop", "h_append"}

\* C1 - queue disjointness: whenever no move is under way, every finding ever
\* added is in exactly one of the four queues (none lost, none duplicated),
\* whatever the interleaving of the verifier's decision, the watchdog and the
\* cleanup after a failed run.
C1_QueueDisjoint == NoMoveUnderWay => \A f \in Made : Occurrences(f) = 1

\* C2 - id uniqueness: the ids assigned so far are strictly increasing in
\* assignment order (hence pairwise distinct across the four queues).
C2_IdsIncreasing == \A f, g \in Made : f < g => reports[f].id < reports[g].id

\* a finding that has left pending for a terminal queue
Settled(f) == InTerminal(f) /\ ~InQ(pending, f)

\* C3 - one-way transitions: once a finding has left pending for a terminal
\* queue, no step changes its status or its place in the queues again; and a
\* finalize, reject or add_to_manual_review that does not find its id in
\* pending leaves the four queues as they are.
C3_OneWay ==
    /\ [][\A f \in Made :
          Settled(f) =>
              /\ reports'[f].status = reports[f].status
              /\ Count(pending', f) = 0
              /\ Count(verified', f) = Count(verified, f)
              /\ Count(rejected', f) = Count(rejected, f)
              /\ Count(manual', f) = Count(manual, f)]_vars
    /\ [][\A k \in Made :
             \/ vpc[k] \in {"fin_scan", "rej_scan"} /\ vpc'[k] = "ret_fail"
             \/ vpc[k] = "ex_scan" /\ vpc'[k] = "ex_status"
             \/ wd[k] = "h_scan" /\ wd'[k] = "h_status"
             => UNCHANGED queues]_vars

\* C4 - root finish gate: at the moment finish_scan records the final scan
\* result, pending is empty and no node other than the root is running or
\* stopping.
C4_FinishGate ==
    [][(~finalScan /\ finalScan') => (pending = <<>> /\ ~ActiveAgents("root"))]_vars

\* C5 - verifier finish gate: agent_finish of the verifier of finding k gets
\* past its gate (and so goes on to set the node's status and notify the
\* parent) only when finding k is out of pending and in a terminal queue; a
\* denied agent_finish changes neither the node's status nor any mailbox.
C5_VerifierGate ==
    [][\A k \in Made :
          /\ (vpc[k] = "run" /\ vpc'[k] = "af_set") => Settled(k)
          /\ (vpc[k] = "run" /\ vpc'[k] = "af_denied") => UNCHANGED <<vnode, mailbox>>]_vars

IdInQ(q, rid) == \E i \in 1 .. Len(q) : reports[q[i]].id = rid

\* C6 - is_report_verified(id) is true exactly when id is not in pending and
\* is in verified, rejected or needs_manual_review; for an id never assigned
\* it is false.
C6_IsReportVerified ==
    \A rid \in IdSet :
        IsReportVerified(rid) <=>
            (~IdInQ(pending, rid) /\ (IdInQ(verified, rid) \/ IdInQ(rejected, rid) \/ IdInQ(manual, rid)))

\* C7 - two-phase acceptance: whenever a finding is added to the verified
\* queue, the step is the finalize of a verify_vulnerability_report call with
\* verified = true whose evidence passes every structural check for that
\* finding's type.
C7_TwoPhase ==
    [][\A f \in Made :
          Count(verified', f) > Count(verified, f) =>
              \E k \in Made :
                  /\ vpc[k] = "fin_append"
                  /\ vloc[k].f = f
                  /\ vloc[k].verified
                  /\ ValidateTwoPhaseEvidence(vloc[k].ev, reports[f].vtype)]_vars

\* a verify_vulnerability_report call of verifier k is past its checks
Deciding(k) == vpc[k] \in {"vf_cancel", "fin_scan", "fin_append", "fin_pop",
                           "rej_scan", "rej_append", "rej_pop"}

\* C8 - watchdog timeout: when the timer of finding k has run its course
\* while no decision was recorded for k (nor is one being recorded) and the
\* verifier's thread is alive,
\* finding k is in needs_manual_review with reason verification_timeout and
\* the verifier's node has status timeout.
C8_WatchdogTimeout ==
    [][\A k \in Made :
          (wd[k] \notin {"lapsed", "fired"} /\ wd'[k] \in {"lapsed", "fired"}
           /\ ~decided'[k] /\ ~Deciding(k)' /\ IsAlive(k)') =>
              /\ InQ(manual', k)
              /\ reports'[k].reason = "verification_timeout"
              /\ vnode'[k] = "timeout"]_vars

\* C9 - watchdog cancellation: once a decision is recorded for finding k, its
\* timer is never armed, never starts its handler and never sets the
\* verifier's node to timeout.
C9_WatchdogCancelled ==
    [][\A k \in Made :
          decided'[k] =>
              /\ wd'[k] # "armed"
              /\ (wd'[k] # wd[k] => wd'[k] \in {"cancelled", "lapsed"})
              /\ (vnode'[k] = "timeout" => vnode[k] = "timeout")]_vars

\* C10 - unmet preconditions change nothing: no step of a
\* verify_vulnerability_report call that ends with success = false changes
\* the membership of any of the four queues; those steps are the argument
\* checks, the timer's cancellation with the evidence check, and a lookup
\* that does not find the id.
C10_FailedVerifyChangesNothing ==
    [][\A k \in Made :
          (vpc[k] \in {"run", "vf_cancel", "fin_scan", "rej_scan"} /\ vpc'[k] = "ret_fail") =>
              UNCHANGED queues]_vars

\* a call with verified = true and evidence that fails the check has returned
\* success = false, and the report it named is still pending
C10_Witness ==
    \E k \in Made :
        /\ vpc[k] = "ret_fail"
        /\ vloc[k].verified
        /\ ~ValidateTwoPhaseEvidence(vloc[k].ev, reports[vloc[k].f].vtype)
        /\ InQ(pending, vloc[k].f)
        /\ Occurrences(vloc[k].f) = 1
\* C11: a verifier that reaches its iteration cap with its finding still
\* pending has the finding taken out of the pending list (the claim: into
\* needs_manual_review with the reason max_iterations_without_decision), and
\* a verifier whose thread has ended never leaves its finding pending.
CapReachedUndecided(k) ==
    /\ vpc[k] \in {"run", "waiting"}
    /\ HasReachedMaxIterations(k)
    /\ InQ(pending, k)

C11_PostRunCleanup ==
    /\ \A k \in Findings : CapReachedUndecided(k) ~> ~InQ(pending, k)
    /\ [](\A k \in Findings : vpc[k] = "dead" => ~InQ(pending, k))

\* the positions of the turn's list
Positions == 1 .. Len(invs)
HasBegun(i) == \E p \in 1 .. Len(executed) : executed[p] = i
HasEnded(i) == HasBegun(i) /\ i \notin inflight
IsFinish(i) == invs[i] \in FinishTools

\* C12: finish_scan and agent_finish invocations are executed after every
\* other invocation of the turn's list, wherever they stand in the list.
C12_FinishToolsLast ==
    \A p, q \in 1 .. Len(executed) :
        p < q => ~(IsFinish(executed[p]) /\ ~IsFinish(executed[q]))

\* C13: a call with a non-empty list appends exactly one observation message,
\* and the message holds one tool_result block per invocation in the order of
\* the list.
C13_ResultOrdering ==
    /\ tpc \in {"loop", "cancelled"} => history = <<>>
    /\ (tpc = "returned" /\ invs # <<>>) =>
           /\ Len(history) = 1
           /\ Len(history[1]) = Len(invs)
           /\ \A i \in Positions : history[1][i].inv = i /\ history[1][i].tool = invs[i]

C13_Witness ==
    /\ tpc = "returned"
    /\ Len(invs) = MaxInvocations
    /\ IsFinish(1) /\ ~IsFinish(2)
    /\ failed # {}

\* C14: the parallelizable invocations of a turn run concurrently: none of
\* them has ended before every one of them has begun, so that all of them
\* are in flight at once.
InParallelWave(i) == invs[i] \in Parallelizable /\ ~IsFinish(i)

C14_ParallelWave ==
    \A i, j \in Positions :
        (InParallelWave(i) /\ InParallelWave(j) /\ HasEnded(i)) => HasBegun(j)

\* what the executor does instead: at most one invocation is awaited at a time
OneAtATime == Cardinality(inflight) <= 1

C16_EmptyList ==
    (tpc = "returned" /\ invs = <<>>) => (history = <<>> /\ ~shouldFinish)

\* C17: the iteration counter of an agent never exceeds max_iterations,
\* whatever ticks, waits, timeouts, resumes, envelopes and stop requests occur.
C17_IterationBound == iteration <= MaxIterations

\* the agent at its cap, resumed by a timeout and by an envelope, stopped
\* once more and again at the loop's decision
C17_Witness ==
    /\ iteration = MaxIterations
    /\ lpc = "decide"
    /\ ~waitingForInput
    /\ stopRequested
    /\ messages[Len(messages)].kind = "envelope"
    /\ CountKind(messages, "timeout_notice") >= 1
    /\ CountKind(messages, "waiting_notice") >= 2

\* C18: once the agent's state is terminal (it completed, a stop was
\* requested, or it reached max_iterations) no later tick of its loop changes
\* its message log, in either mode.  The tick that is still in its LLM call
\* when the state becomes terminal is not a later one.
Terminal == completed \/ stopRequested \/ HasReachedMax(iteration)

C18_TerminalFreezesLog ==
    [][(Terminal /\ lpc # "llm") => messages' = messages]_vars

\* the same for a non-interactive agent alone
C18_NonInteractive ==
    [][(nonInteractive /\ Terminal /\ lpc # "llm") => messages' = messages]_vars

\* the step drains an unread envelope of the given sender
Drained(from) ==
    \E i \in 1 .. Len(inbox) :
        inbox[i].from = from /\ ~inbox[i].read /\ inbox'[i].read

\* the step is the waiting timeout of _wait_for_input
TimedOut == messages' = Append(messages, Entry("timeout_notice"))

\* C19 as claimed: llm_failed is cleared only by the drain of an unread
\* envelope of the user; neither another agent's envelope nor the passing of
\* time clears it.
C19_OnlyUserClears ==
    [][(llmFailed /\ ~llmFailed') => Drained("user")]_vars

\* C19 amended: llm_failed is cleared, and the LLM called again, only by the
\* drain of an unread envelope of the user or by the waiting timeout; the
\* drain of another agent's envelope leaves it set.
C19_UserOrTimeoutClears ==
    /\ [](lpc = "llm" => ~llmFailed)
    /\ [][(llmFailed /\ ~llmFailed') => (Drained("user") \/ TimedOut)]_vars
    /\ [][(llmFailed /\ Drained("peer")) => llmFailed']_vars

\* the LLM has failed, the envelope of another agent has been drained and
\* has left the agent as it was, the user's envelope is next
C19_Witness ==
    /\ llmFailed /\ waitingForInput
    /\ lpc = "drain" /\ di = 2
    /\ Len(inbox) = 2
    /\ inbox[1] = [from |-> "peer", read |-> TRUE]
    /\ inbox[2] = [from |-> "user", read |-> FALSE]
    /\ messages[Len(messages)] = [kind |-> "envelope", id |-> 1]

\* the ids of the envelopes in the log, in the log's order
DeliveredIds ==
    [j \in 1 .. CountKind(messages, "envelope") |->
        SelectSeq(messages, LAMBDA e : e.kind = "envelope")[j].id]

\* C20: every envelope of the mailbox is added to the log exactly once, in
\* the order of the queue, and marked read: the log's envelopes are the read
\* ones in increasing place, a finished drain has left none behind that it
\* passed, and no envelope is removed or marked unread again, however the
\* appends of other threads fall between the steps of a drain.
C20_ExactlyOnce ==
    /\ [](/\ \A j \in 1 .. Len(DeliveredIds) - 1 : DeliveredIds[j] < DeliveredIds[j + 1]
          /\ {DeliveredIds[j] : j \in 1 .. Len(DeliveredIds)}
                 = {i \in 1 .. Len(inbox) : inbox[i].read}
          /\ lpc \in {"drain", "decide", "llm"} =>
                 \A i \in 1 .. Len(inbox) : i < di => inbox[i].read)
    /\ [][/\ Len(inbox') >= Len(inbox)
          /\ \A i \in 1 .. Len(inbox) :
                 /\ inbox'[i].from = inbox[i].from
                 /\ inbox[i].read => inbox'[i].read]_vars

\* two envelopes delivered in different ticks, the second having arrived
\* after the first was drained
C20_Witness ==
    /\ Len(inbox) >= 2
    /\ \A i \in 1 .. Len(inbox) : inbox[i].read
    /\ lpc = "decide"
    /\ \E a, b, c \in 1 .. Len(messages) :
           /\ a < b /\ b < c
           /\ messages[a] = [kind |-> "envelope", id |-> 1]
           /\ messages[b].kind = "assistant"
           /\ messages[c] = [kind |-> "envelope", id |-> 2]

\* C21: the envelopes are added to the recipient's log in non-decreasing
\* order of their timestamps, also when several senders send at once.
C21_TimestampOrder ==
    \A j \in 1 .. Len(DeliveredIds) - 1 :
        stamps[DeliveredIds[j]] <= stamps[DeliveredIds[j + 1]]

\* C22: after stop_agent on a child whose node is not terminal, the child
\* issues no further LLM call, and the tick of its loop that finds the stop
\* requested leaves the node stopped (or returns, for the thread to write
\* it) rather than stopping, in either mode.
C22_StopPropagates ==
    /\ [][(nresult = "stop_agent" /\ lpc # "llm") => lpc' # "llm"]_vars
    /\ [][(/\ nstatus = "stopping" /\ stopRequested /\ ~waitingForInput
           /\ lpc = "decide" /\ lpc' # lpc)
              => (nstatus' = "stopped" \/ lpc' = "returned")]_vars

\* the first half alone: no LLM call after the stop
C22_NoFurtherCall ==
    [][(nresult = "stop_agent" /\ lpc # "llm") => lpc' # "llm"]_vars

\* the statuses and the changes of status the life cycle allows
NodeStatuses == {"running", "waiting", "stopping", "completed", "failed", "stopped"}

StatusChanges ==
    ({"running"} \X {"waiting", "stopping", "completed", "failed", "stopped"})
        \cup {<<"waiting", "running">>, <<"stopping", "stopped">>}

\* C23: the status of a node is always one of running, waiting, stopping,
\* completed, failed, stopped, and every change of it is running to one of
\* the others, waiting to running, or stopping to stopped; agent_finish and
\* the agent thread's exit are among the writers.
C23_StatusLifecycle ==
    /\ [](nstatus \in NodeStatuses)
    /\ [][nstatus' # nstatus => <<nstatus, nstatus'>> \in StatusChanges]_vars

\* the same of the nodes of the verifiers, written by agent_finish, the
\* verification orchestrator and the watchdog
C23_VerifierStatuses ==
    \A k \in Findings : vnode[k] \in NodeStatuses \cup {"none"}

\* the statuses of a node whose agent has ended
TerminalStatuses == {"finished", "completed", "failed", "stopped"}

\* C24: stop_agent on a node whose status is finished, completed, failed or
\* stopped changes nothing: no step makes such a node stopping, writes the
\* stop result to it, or sets stop_requested on its agent.
C24_StopIdempotent ==
    [][(nstatus \in TerminalStatuses) =>
          (/\ nstatus' # "stopping"
           /\ (nresult' = "stop_agent" => nresult = "stop_agent")
           /\ (stopRequested' => stopRequested))]_vars

\* the pairs joined by a chain of pairs of R
ChainStep(R) ==
    R \cup {<<a, c>> \in NodeIds \X NodeIds :
                \E b \in NodeIds : <<a, b>> \in R /\ <<b, c>> \in R}

RECURSIVE Chains(_)
Chains(R) == IF ChainStep(R) = R THEN R ELSE Chains(ChainStep(R))

Delegations == {<<e.from, e.to>> : e \in {d \in gedges : d.type = "delegation"}}

\* C25: after any create_agent and verifier spawn calls, exactly one node of
\* the graph has no parent, no two nodes have the same agent id, and the
\* delegation edges contain no cycle.
C25_GraphShape ==
    /\ Cardinality({n \in gnodes : n.parent = NoNode}) = 1
    /\ \A m, n \in gnodes : m.id = n.id => m = n
    /\ \A i \in NodeIds : <<i, i>> \notin Chains(Delegations)

\* a verifier spawned by a sub-agent that the root created, and another
\* agent besides
C25_Witness ==
    /\ Cardinality(gnodes) >= 4
    /\ \E v, a \in gnodes :
           /\ v.kind = "verification"
           /\ a.kind = "agent"
           /\ v.parent = a.id
           /\ a.parent = 1
           /\ <<1, v.id>> \in Chains(Delegations)

\* the state record of the agent whose loop is followed
StateRecord ==
    <<messages, iteration, completed, stopRequested, waitingForInput, llmFailed,
      warningSent, errors>>

\* the step is one of the agent's own loop or thread
OwnStep == lpc' # lpc \/ di' # di

\* the step is a stop_agent aimed at the agent
StopAgentStep ==
    /\ stopRequested' /\ nstatus' = "stopping" /\ nresult' = "stop_agent"
    /\ <<messages, iteration, completed, waitingForInput, llmFailed, warningSent, errors>>'
           = <<messages, iteration, completed, waitingForInput, llmFailed, warningSent, errors>>

\* C26: a step of another agent's loop changes nothing of this agent's state
\* record (message log, iteration counter, flags), unless it is the graph
\* tool stop_agent; what it sends is appended to the mailbox and reaches the
\* record only through this agent's own drain.
C26_LoopIsolation ==
    [][~OwnStep => (StateRecord' = StateRecord \/ StopAgentStep)]_vars

\* the agent waits, its LLM having failed, and another agent has sent it an
\* envelope that its loop has not yet drained
C26_Witness ==
    /\ waitingForInput /\ llmFailed
    /\ lpc = "check"
    /\ Len(inbox) = 1
    /\ inbox[1] = [from |-> "peer", read |-> FALSE]
    /\ CountKind(messages, "envelope") = 0

\* C27: when an iteration raises RuntimeError, ValueError or TypeError the
\* error is added to the error list and then a non-interactive agent's loop
\* ends and an interactive agent waits; the loop does not go on to its next
\* tick as if nothing had happened.
C27_ErrorStopsOrPauses ==
    [][(lpc = "handle" /\ lpc' # lpc) =>
          /\ errors' = errors + 1
          /\ IF nonInteractive
             THEN lpc' \in {"returned", "raised"}
             ELSE waitingForInput']_vars

\* the first half alone: the error is recorded
C27_ErrorRecorded ==
    [][(lpc = "handle" /\ lpc' # lpc) => errors' = errors + 1]_vars

\* the statuses of a node whose agent has not ended
LiveStatuses == {"running", "waiting", "stopping"}

\* C28: when the tracer's cleanup has run and the run data is saved, a stop
\* has been requested on the agent if its node was not terminal:
\* stop_requested is set and the node is no longer running.
C28_CleanupStopsAgents ==
    [][(~runSaved /\ runSaved' /\ nstatus \in LiveStatuses) =>
          (stopRequested' /\ nstatus' # "running")]_vars

\* the invocations of a finish tool whose result is the tool's success
FinishedOk ==
    {i \in 1 .. Len(parts) : parts[i].tool \in FinishTools /\ parts[i].result = "ok"}

\* C29: process_tool_invocations returns true exactly when one of the
\* invocations was a finish_scan or agent_finish that succeeded; a finish tool
\* that was refused or failed and a tool that is no finish tool do not make
\* it true.
C29_FinishFlag ==
    tpc = "returned" => (shouldFinish <=> FinishedOk # {})

\* a turn of three has returned true: a tool that is no finish tool
\* succeeded, a finish tool was refused, and a finish tool succeeded
C29_Witness ==
    /\ tpc = "returned"
    /\ shouldFinish
    /\ Len(parts) = 3
    /\ \E i, j, k \in 1 .. 3 :
           /\ parts[i].tool \notin FinishTools /\ parts[i].result = "ok"
           /\ parts[j].tool \in FinishTools /\ parts[j].result = "refused"
           /\ parts[k].tool \in FinishTools /\ parts[k].result = "ok"

\* the tick resumes the agent by the waiting timeout
TimeoutResume ==
    /\ WaitForInput(TRUE)
    /\ ~waitingForInput'
    /\ messages' = Append(messages, Entry("timeout_notice"))

\* C30: a waiting agent whose waiting period has passed the timeout resumes
\* at its next tick, waiting_for_input cleared and the timeout message added
\* to its log, whatever stop_requested, completed, llm_failed and the
\* iteration counter are; while it waits its ticks do nothing else, and so
\* a waiting agent does not wait for ever.
C30_TimeoutResumes ==
    /\ (waitingForInput /\ CountKind(messages, "timeout_notice") < MaxTimeouts)
           ~> ~waitingForInput
    /\ []((/\ lpc = "decide"
           /\ waitingForInput
           /\ CountKind(messages, "timeout_notice") < MaxTimeouts)
              => ENABLED TimeoutResume)
    /\ [][(lpc = "decide" /\ waitingForInput /\ lpc' # lpc) =>
              (/\ lpc' = "check"
               /\ \/ TimedOut /\ ~waitingForInput'
                  \/ StateRecord' = StateRecord)]_vars

\* an agent waiting at its cap with a stop requested and its LLM failed is
\* resumed by the timeout
C30_Witness ==
    /\ iteration = MaxIterations
    /\ lpc = "check"
    /\ ~waitingForInput /\ ~stopRequested /\ ~llmFailed
    /\ nresult = "stop_agent"
    /\ errors >= 1
    /\ messages[Len(messages)].kind = "timeout_notice"

\* C31: when the LLM request of a tick fails, the error is added to the
\* error list and nothing is added to the log, so no tool of that tick is
\* executed; an interactive agent then waits with llm_failed set, and the LLM
\* is not called while llm_failed is set; a non-interactive agent is
\* completed with a failure result, its loop returns, and it makes no
\* further tick.
C31_LlmFailure ==
    /\ [][ProcessIteration("llm_failed") =>
              (/\ errors' = errors + 1
               /\ messages' = messages
               /\ IF nonInteractive
                  THEN completed' /\ finalResult' = "failure" /\ lpc' = "returned"
                  ELSE waitingForInput' /\ llmFailed' /\ lpc' = "check")]_vars
    /\ [](llmFailed => (waitingForInput /\ lpc # "llm"))
    /\ [](finalResult = "failure" => (nonInteractive /\ lpc \in {"returned", "exited"}))

\* the first LLM request of a non-interactive agent has failed and the loop
\* has returned the failure
C31_Witness ==
    /\ nonInteractive
    /\ lpc = "returned"
    /\ iteration = 1
    /\ errors = 1
    /\ completed /\ finalResult = "failure"
    /\ CountKind(messages, "assistant") = 0
    /\ CountKind(messages, "observation") = 0

\* the envelopes of t's mailbox and the message edges to t, as [from, id]
BoxOf(t) == IF t \in DOMAIN gboxes THEN gboxes[t] ELSE <<>>
EnvelopesTo(t) == [j \in 1 .. Len(BoxOf(t)) |-> <<BoxOf(t)[j].from, BoxOf(t)[j].id>>]
EdgesTo(t) ==
    [j \in 1 .. Len(SelectSeq(medges, LAMBDA e : e.to = t)) |->
        <<SelectSeq(medges, LAMBDA e : e.to = t)[j].from,
          SelectSeq(medges, LAMBDA e : e.to = t)[j].id>>]

\* C32: send_message_to_agent for a target that is no node of the graph
\* returns success = false and changes no mailbox and no edge; for a target
\* that is a node it appends one unread envelope to the target's mailbox and
\* one message edge from the sender to the target, and nothing else.  So
\* only nodes have mailboxes and the envelopes of a mailbox are, one for
\* one, the message edges to its owner.
C32_SendMessage ==
    /\ [][\A s, t \in NodeIds : SendMessageToAgent(s, t) =>
              IF HasNode(t)
              THEN /\ gresult'.success
                   /\ BoxOf(t)' = Append(BoxOf(t), [from |-> s, read |-> FALSE,
                                                    id |-> gresult'.id])
                   /\ \A u \in NodeIds \ {t} : BoxOf(u)' = BoxOf(u)
                   /\ medges' = Append(medges, [from |-> s, to |-> t, id |-> gresult'.id])
                   /\ gedges' = gedges
              ELSE /\ ~gresult'.success
                   /\ <<gboxes, medges, gedges>>' = <<gboxes, medges, gedges>>]_vars
    /\ [](\A t \in NodeIds :
             /\ (t \in DOMAIN gboxes => HasNode(t))
             /\ EnvelopesTo(t) = EdgesTo(t))

\* an agent has been sent two messages, by the root and by itself; a send to
\* an agent that does not exist has failed since
C32_Witness ==
    /\ gresult = [tool |-> "send_message_to_agent", success |-> FALSE, id |-> 0]
    /\ Len(medges) = 2
    /\ \E t \in NodeIds \ {1} :
           /\ HasNode(t)
           /\ Len(BoxOf(t)) = 2
           /\ BoxOf(t)[1].from = 1 /\ BoxOf(t)[2].from = t
           /\ ~BoxOf(t)[1].read /\ ~BoxOf(t)[2].read

\* the ids of the nodes
NodeIdsUsed == {n.id : n \in gnodes}

\* C33: create_agent given more than five prompt modules, or a module name
\* the registry does not have, returns success = false and makes no node,
\* edge, mailbox or worker; a successful call makes exactly one node, whose
\* parent_id is the caller, and exactly one delegation edge, from the caller
\* to the new node, and both are there when the worker starts.
C33_CreateAgent ==
    /\ [][\A p \in NodeIds, mods \in ModuleInputs : CreateAgent(p, mods) =>
              IF mods = "valid"
              THEN /\ gresult'.success
                   /\ gresult'.id \notin NodeIdsUsed
                   /\ gnodes' = gnodes \cup {[id |-> gresult'.id, parent |-> p,
                                              kind |-> "agent"]}
                   /\ gedges' = gedges \cup {[from |-> p, to |-> gresult'.id,
                                              type |-> "delegation"]}
                   /\ Cardinality(gedges') = Cardinality(gedges) + 1
                   /\ gworkers' = gworkers \cup {gresult'.id}
              ELSE /\ ~gresult'.success
                   /\ <<gnodes, gedges, medges, gboxes, gworkers>>'
                          = <<gnodes, gedges, medges, gboxes, gworkers>>]_vars
    /\ [](\A w \in gworkers :
             /\ w \in NodeIdsUsed /\ w \in DOMAIN gboxes
             /\ \E e \in gedges : e.to = w /\ e.type = "delegation")

\* the root has made an agent, and a later call with prompt modules that
\* are not accepted has failed and left the graph as it was
C33_Witness ==
    /\ gresult = [tool |-> "create_agent", success |-> FALSE, id |-> NoNode]
    /\ gnodes = {[id |-> 1, parent |-> NoNode, kind |-> "agent"],
                 [id |-> 2, parent |-> 1, kind |-> "agent"]}
    /\ gedges = {[from |-> 1, to |-> 2, type |-> "delegation"]}
    /\ gworkers = {2}
    /\ DOMAIN gboxes = {1, 2}

\* the smallest whole number that is at least 0.85 * max_iterations
ApproachCeiling == (MaxIterations * ApproachPercent + 99) \div 100

\* C34: the warning that the iteration limit is near is added to the log
\* once, at the tick whose iteration is the ceiling of 0.85 * max_iterations,
\* and at no earlier or later tick.
C34_WarningAtCeiling ==
    [][(~warningSent /\ warningSent') => iteration' = ApproachCeiling]_vars

\* the input fails a check of create_vulnerability_report: the title or the
\* content is empty or blank, the severity is none of the five, the evidence
\* is missing or not valid
Refused(in) ==
    \/ Strip(in.title) = <<>>
    \/ Strip(in.content) = <<>>
    \/ in.severity \notin {"high", "Info"}
    \/ in.evidence # "valid"

\* C35: a call of create_vulnerability_report whose input is refused returns
\* success = false and changes nothing: no finding is added to a queue, no
\* id is used up, and no verifier, graph node or timer is made.
C35_RefusedReportChangesNothing ==
    [][\A a \in Agents, t \in VulnTypes, in \in ReportInputs :
          (CreateVulnerabilityReport(a, t, in) /\ Refused(in)) =>
              (/\ ~gresult'.success
               /\ gresult'.tool = "create_vulnerability_report"
               /\ UNCHANGED <<storeVars, graphVars, timerVars, verifierVars, apc, aloc>>
               /\ TotalReports' = TotalReports
               /\ UNCHANGED <<gnodes, gedges, gboxes, gworkers>>)]_vars

\* a report has been stored and given its verifier and its timer; a later
\* call has been refused
C35_Witness ==
    /\ gresult = [tool |-> "create_vulnerability_report", success |-> FALSE, id |-> 0]
    /\ Len(reports) = 1
    /\ pending = <<1>>
    /\ vpc[1] = "run" /\ wd[1] = "armed"
    /\ \A a \in Agents : apc[a] = "idle"
    /\ \A k \in Findings \ {1} : vpc[k] = "none" /\ wd[k] = "none"

\* a test name as the claim normalizes it: lower case, blanks and hyphens
\* made underscores
LowerUnderscored(name) == [i \in 1 .. Len(name) |-> ReplaceChar(ToLower(name[i]))]

\* C36: a verify_vulnerability_report call with verified = true and
\* evidence that is otherwise complete passes the check of the control tests
\* exactly when one of the test names given equals a required test name of
\* the finding's type once both are in lower case with blanks and hyphens
\* made underscores; names that differ in anything else do not match.
C36_ControlTestsMatch ==
    [][\A k \in Findings :
          (/\ vpc[k] = "vf_cancel"
           /\ vpc'[k] \in {"fin_scan", "ret_fail"}
           /\ vloc[k].verified
           /\ vloc'[k].ev.present /\ vloc'[k].ev.count >= MinReproductions
           /\ vloc'[k].ev.confirmed /\ vloc'[k].ev.reasoning)
          => (vpc'[k] = "fin_scan" <=>
                 \E n \in vloc'[k].ev.tests,
                    r \in RequiredControlTests(reports[vloc[k].f].vtype) :
                     LowerUnderscored(n) = LowerUnderscored(r))]_vars

\* C37: while the agent's loop is iterating (it is in a tick's LLM call or
\* tools, not waiting and not ended) its graph node's status is running or
\* stopping, so that finish_scan counts the agent as active; so it is for an
\* agent that called wait_for_message and was resumed by an envelope.
C37_IteratingShownActive ==
    (lpc = "llm" /\ ~waitingForInput) => nstatus \in {"running", "stopping"}

\* an agent resumed from wait_for_message by an envelope is in its next tick
\* and its node still says waiting
C37_ResumedShownWaiting ==
    /\ lpc = "llm" /\ ~waitingForInput
    /\ nstatus = "waiting"
    /\ messages[Len(messages)].kind = "envelope"

\* C38: when the child of a create_agent call with inherit_context has
\* built its log, the log is the opening marker, the parent's messages as
\* they were when create_agent was called, the closing marker and the
\* delegation message, whatever the parent has done to its history since.
C38_InheritedSnapshot ==
    (cpc = "done" /\ shared) =>
        clog = <<Entry("open")>> \o atCall \o <<Entry("close"), Entry("task")>>

\* C39: no wake-up is lost.  A tick of a waiting agent goes back to the
\* drain of its mailbox, the drain starts at the head of the mailbox and
\* ends only when every envelope in it is read, envelopes appended meanwhile
\* included, and the drain of an unread envelope takes an agent that waits
\* and whose LLM has not failed out of the waiting state, whenever the
\* envelope was appended; an agent taken out of the waiting state stays out
\* of it to the end of the drain.
C39_NoLostWakeup ==
    /\ [][(/\ lpc = "drain" /\ di' = di + 1
           /\ ~inbox[di].read
           /\ waitingForInput /\ ~llmFailed)
              => (~waitingForInput' /\ inbox'[di].read)]_vars
    /\ [][(lpc = "drain" /\ lpc' = "decide") =>
              \A i \in 1 .. Len(inbox) : inbox[i].read]_vars
    /\ [][(lpc = "decide" /\ waitingForInput /\ lpc' # lpc) => lpc' = "check"]_vars
    /\ [][(lpc = "check" /\ lpc' # lpc) => (lpc' = "drain" /\ di' = 1)]_vars
    /\ [](lpc = "drain" => \A i \in 1 .. Len(inbox) : i < di => inbox[i].read)
    /\ [][(lpc = "drain" /\ ~waitingForInput) => ~waitingForInput']_vars

\* an envelope arrived while the agent was in the turn in which it called
\* wait_for_message; the next drain has read it and the agent waits no more
C39_Witness ==
    /\ lpc = "drain" /\ di = 2
    /\ ~waitingForInput
    /\ nstatus = "waiting"
    /\ Len(inbox) = 1
    /\ inbox[1] = [from |-> "peer", read |-> TRUE]
    /\ Len(messages) >= 2
    /\ messages[Len(messages)] = [kind |-> "envelope", id |-> 1]
    /\ messages[Len(messages) - 1].kind = "observation"

====
